---- MODULE Spec2Model ----
(***************************************************************************)
(* Model of the node result service: the credential cache of               *)
(* project/hub.py (BaseAuthClient and its two subclasses) and the relay    *)
(* handlers of project/routers (final.py, upload.py, scratch.py,           *)
(* intermediate.py).                                                       *)
(***************************************************************************)
EXTENDS Integers, Sequences, FiniteSets, Bags, TLC

(***************************************************************************)
(* Bounds of the model.                                                    *)
(***************************************************************************)
\* number of bucket records the hub makes for one type of bucket
MaxBucketRecords == 2
\* number of threads that call get_auth_header() on the one auth client
MaxThreads == 2
\* number of distinct access tokens the issuer hands out
MaxTokens == 2
\* the clock stops advancing here
MaxNow == 90

\* number of results submitted
MaxTickets == 2
\* largest number of file records the hub's upload answers with
MaxRecords == 2
\* number of requests the access log holds
MaxRequests == 2
\* largest bit_size exchange_ecdh_shared_secret is called with
MaxBitSize == 400
\* number of PUT /local requests
MaxPuts == 2
\* largest length of a tag is_valid_tag is called with
MaxTagLen == 34
\* number of parties with a key pair
MaxKeys == 3
\* largest length of a plaintext, in bytes
MaxLen == 2

(***************************************************************************)
(* Program constants.                                                      *)
(***************************************************************************)
\* BaseAuthClient.__init__(token_expiration_leeway_seconds=60)
token_expiration_leeway_seconds == 60

\* crypto.py lines 8-10
BITS_PER_BYTE == 8
DEFAULT_IV_BIT_SIZE == 96
DEFAULT_SHARED_SECRET_BIT_SIZE == 256
\* the raw ECDH secret of two SECP384R1 keys has 48 bytes
\* (tests/common/helpers.py line 54)
RAW_SECRET_BYTES == 48

\* status codes the handlers answer with
HTTP_200_OK == 200
HTTP_204_NO_CONTENT == 204
HTTP_400_BAD_REQUEST == 400
HTTP_403_FORBIDDEN == 403
HTTP_404_NOT_FOUND == 404
HTTP_502_BAD_GATEWAY == 502
\* what the server answers when a handler raises anything but an HTTPException
HTTP_500_INTERNAL_SERVER_ERROR == 500

Threads == 1..MaxThreads
Tokens == 1..MaxTokens
\* values of AccessToken.expires_in the issuer answers with (seconds)
ExpiresInChoices == {30, 120}
\* the clock advances in steps of this many seconds
ClockSteps == {30}
\* ways in which the token request fails: httpx.post raises, raise_for_status
\* raises, AccessToken(**r.json()) raises
IssuerFailures == {"unreachable", "bad_status", "bad_body"}

\* Python's None in a slot that holds an AccessToken
None == [access_token |-> 0, expires_in |-> 0]
NoHeader == <<>>

VARIABLES
    \* BaseAuthClient state
    current_access_token,             \* None or an AccessToken record
    current_access_token_expires_at,  \* absolute timestamp
    now,                              \* what _now() returns
    \* one get_auth_header() call per thread
    pc,          \* position of the thread in get_auth_header/acquire_token
    at,          \* acquire_token's local `at`
    header,      \* what the thread's last finished call returned (NoHeader: it raised)
    \* observations about the thread's current call (history, not program state)
    call

authVars == <<current_access_token, current_access_token_expires_at, now,
              pc, at, header, call>>

VARIABLES
    \* the hub (external)
    analysis_buckets,       \* the bucket types provisioned for the analysis
    bucket_records,         \* per type, how many bucket records the hub has made
    node_public_key,        \* whether the remote node has published a public key
    bucket_files,           \* the files uploaded to the hub's buckets
    analysis_bucket_files,  \* bag of the files linked to the analysis
    \* the local object store (external)
    minio_objects,          \* the object names present
    \* scratch.py's module-level dict: object id -> hub file id, or None
    object_id_to_hub_bucket_dict,
    \* one request and its relay per ticket
    tickets,
    \* the last GET /intermediate/{object_id} and its answer
    reads

relayVars == <<analysis_buckets, bucket_records, node_public_key, bucket_files,
               analysis_bucket_files, minio_objects,
               object_id_to_hub_bucket_dict, tickets, reads>>

VARIABLES
    \* uses of project/crypto.py
    sealing,     \* one encrypt_default call: its arguments, IV and result
    opening,     \* one decrypt call on that result: its arguments and result
    agreement    \* one exchange_ecdh_shared_secret call: arguments and result

cryptoVars == <<sealing, opening, agreement>>

VARIABLES
    \* the settings the process runs with (project/config.py)
    settings,
    \* the requests the server has answered, each with its answer
    access_log

serverVars == <<settings, access_log>>

VARIABLES
    \* PUT /local, GET /local/tags, GET /local/tags/{tag_name}, GET /local/{id}
    local_objects,        \* the objects under local/ in the MinIO bucket
    tag_rows,             \* table Tag
    result_rows,          \* table Result
    tagged_result_rows,   \* table TaggedResult
    puts,                 \* one PUT /local request per slot
    gets,                 \* the last GET request under /local and its answer
    tag_check             \* one is_valid_tag call: its argument and result

localVars == <<local_objects, tag_rows, result_rows, tagged_result_rows,
               puts, gets, tag_check>>

vars == <<authVars, relayVars, cryptoVars, serverVars, localVars>>

(***************************************************************************)
(* Credential cache: project/hub.py                                        *)
(***************************************************************************)
\* AccessToken (the fields the cache uses)
AccessToken == [access_token : Tokens, expires_in : ExpiresInChoices]

\* faulty variant: the same without the leeway
TokenStaleNoLeeway(tok, expires_at, t) ==
    \/ tok = None
    \/ expires_at < t

\* faulty variant: the same with <= for <
TokenStaleInclusive(tok, expires_at, t) ==
    \/ tok = None
    \/ expires_at <= t + token_expiration_leeway_seconds

\* get_auth_header's condition for calling acquire_token
TokenStale(tok, expires_at, t) ==
    \/ tok = None
    \/ expires_at < t + token_expiration_leeway_seconds

\* format_auth_header: {"Authorization": f"Bearer {access_token}"}
format_auth_header(tok) == <<"Authorization", "Bearer", tok.access_token>>

\* what is recorded about a call when it starts
NewCall(stale) ==
    [ requests  |-> IF stale THEN 1 ELSE 0,  \* token requests sent by the call
      unexpired |-> /\ current_access_token # None
                    /\ now < current_access_token_expires_at,
      fresh     |-> /\ current_access_token # None
                    /\ current_access_token_expires_at
                           >= now + token_expiration_leeway_seconds,
      \* the cache when the call started (kept while the token request is pending)
      before    |-> IF stale
                    THEN <<current_access_token, current_access_token_expires_at>>
                    ELSE <<None, 0>>,
      error     |-> "none",                   \* why the token request failed
      \* set on return: "first" (the thread's call before raised, or there was
      \* none), "same" or "differs" (the header compared to that of the call before)
      repeat    |-> "first" ]

NoCall == [requests |-> 0, unexpired |-> FALSE, fresh |-> FALSE,
           before |-> <<None, 0>>, error |-> "none", repeat |-> "first"]

InitAuth ==
    /\ current_access_token = None
    /\ current_access_token_expires_at = 0
    /\ now = 0
    /\ pc = [t \in Threads |-> "idle"]
    /\ at = [t \in Threads |-> None]
    /\ header = [t \in Threads |-> NoHeader]
    /\ call = [t \in Threads |-> NoCall]

\* get_auth_header, lines 126-132: the check, and for a missing or stale token
\* the entry into acquire_token up to the httpx.post being sent
get_auth_header(t) ==
    /\ pc[t] = "idle"
    /\ LET stale == TokenStale(current_access_token,
                               current_access_token_expires_at, now)
       IN /\ call' = [call EXCEPT ![t] = NewCall(stale)]
          /\ pc' = [pc EXCEPT ![t] = IF stale THEN "awaiting" ELSE "format"]
    /\ UNCHANGED <<current_access_token, current_access_token_expires_at, now,
                   at, header>>
    /\ UNCHANGED <<relayVars, cryptoVars, serverVars, localVars>>

\* faulty variant: a failed token request clears the cache
CacheCleared == <<None, 0>>

\* the cache after the token request of acquire_token failed
CacheAfterFailure == <<current_access_token, current_access_token_expires_at>>

\* acquire_token: httpx.post, raise_for_status or AccessToken(**r.json()) raises
acquire_token_fails(t) ==
    /\ pc[t] = "awaiting"
    /\ \E why \in IssuerFailures :
          /\ call' = [call EXCEPT ![t].error = why]
    /\ pc' = [pc EXCEPT ![t] = "raised"]
    /\ header' = [header EXCEPT ![t] = NoHeader]
    /\ current_access_token' = CacheAfterFailure[1]
    /\ current_access_token_expires_at' = CacheAfterFailure[2]
    /\ UNCHANGED <<now, at>>
    /\ UNCHANGED <<relayVars, cryptoVars, serverVars, localVars>>

\* acquire_token, line 172: the issuer answered, at = AccessToken(**r.json())
acquire_token_parsed(t) ==
    /\ pc[t] = "awaiting"
    /\ \E a \in AccessToken : at' = [at EXCEPT ![t] = a]
    /\ call' = [call EXCEPT ![t].before = <<None, 0>>]
    /\ pc' = [pc EXCEPT ![t] = "store_token"]
    /\ UNCHANGED <<current_access_token, current_access_token_expires_at, now, header>>
    /\ UNCHANGED <<relayVars, cryptoVars, serverVars, localVars>>

\* acquire_token, line 174: self.current_access_token = at
acquire_token_store_token(t) ==
    /\ pc[t] = "store_token"
    /\ current_access_token' = at[t]
    /\ pc' = [pc EXCEPT ![t] = "store_expiry"]
    /\ UNCHANGED <<current_access_token_expires_at, now, at, header, call>>
    /\ UNCHANGED <<relayVars, cryptoVars, serverVars, localVars>>

\* acquire_token, line 175: self.current_access_token_expires_at = _now() + at.expires_in
acquire_token_store_expiry(t) ==
    /\ pc[t] = "store_expiry"
    /\ current_access_token_expires_at' = now + at[t].expires_in
    /\ pc' = [pc EXCEPT ![t] = "format"]
    /\ UNCHANGED <<current_access_token, now, at, header, call>>
    /\ UNCHANGED <<relayVars, cryptoVars, serverVars, localVars>>

\* get_auth_header, line 134: return self.format_auth_header()
get_auth_header_return(t) ==
    /\ pc[t] = "format"
    /\ LET h == format_auth_header(current_access_token)
       IN /\ header' = [header EXCEPT ![t] = h]
          /\ call' = [call EXCEPT ![t].repeat =
                         IF header[t] = NoHeader THEN "first"
                         ELSE IF header[t] = h THEN "same" ELSE "differs"]
    /\ pc' = [pc EXCEPT ![t] = "returned"]
    /\ UNCHANGED <<current_access_token, current_access_token_expires_at, now, at>>
    /\ UNCHANGED <<relayVars, cryptoVars, serverVars, localVars>>

\* the caller goes on and may call again
caller_continues(t) ==
    /\ pc[t] \in {"returned", "raised"}
    /\ pc' = [pc EXCEPT ![t] = "idle"]
    /\ at' = [at EXCEPT ![t] = None]
    /\ call' = [call EXCEPT ![t] = NoCall]
    /\ UNCHANGED <<current_access_token, current_access_token_expires_at, now, header>>
    /\ UNCHANGED <<relayVars, cryptoVars, serverVars, localVars>>

\* dependencies.py lines 115-130: the next request is served; the dependency
\* is not cached across requests (only get_settings is, line 30), so the hub
\* clients of this request get an auth client made anew, whose __init__
\* (hub.py lines 107-108) starts without a token
get_flame_hub_auth_flow(t) ==
    /\ pc[t] = "idle"
    /\ current_access_token' = None
    /\ current_access_token_expires_at' = 0
    /\ UNCHANGED <<now, pc, at, header, call>>
    /\ UNCHANGED <<relayVars, cryptoVars, serverVars, localVars>>

\* time passes
Tick ==
    /\ now < MaxNow
    /\ \E d \in ClockSteps : now' = now + d
    /\ UNCHANGED <<current_access_token, current_access_token_expires_at,
                   pc, at, header, call>>
    /\ UNCHANGED <<relayVars, cryptoVars, serverVars, localVars>>



(***************************************************************************)
(* Crypto: project/crypto.py.  ECDH and AES-GCM are the cryptography       *)
(* library's; they are modelled by their contract: the agreed secret is    *)
(* the same for (skA, pkB) and (skB, pkA) and for no other pair of         *)
(* parties, and AES-GCM opens exactly what was sealed with the same        *)
(* secret, IV and associated data.  A byte is a record, so that a byte of  *)
(* ciphertext can name the sealing it comes from.                          *)
(***************************************************************************)
Parties == 1..MaxKeys
ByteValues == {0, 1}

\* a byte of a plaintext or of an IV; "of" holds the sealing in the first
\* byte AES-GCM puts out and is empty in any other byte
PlainByte(v) == [kind |-> "plain", v |-> v, of |-> <<>>]

\* the plaintexts: byte strings of up to MaxLen bytes
Messages ==
    UNION {[1..n -> {PlainByte(v) : v \in ByteValues}] : n \in 0..MaxLen}

\* the key pair of party p
private_key_of(p) == [owner |-> p, private |-> TRUE]
public_key_of(p) == [owner |-> p, private |-> FALSE]

\* the length in bytes of the raw ECDH secret of two keys on SECP256R1,
\* SECP384R1 and SECP521R1
CurveSecretBytes == {32, RAW_SECRET_BYTES, 66}

\* the length of the tag AES-GCM appends to the ciphertext, in bytes
AESGCM_TAG_BYTES == 128 \div BITS_PER_BYTE

\* what aead.AESGCM.decrypt raises (InvalidTag), as a value no plaintext equals
InvalidTag == <<[kind |-> "InvalidTag", v |-> 0, of |-> <<>>]>>

\* crypto.py lines 44-46: os.urandom(DEFAULT_IV_BIT_SIZE // BITS_PER_BYTE);
\* the IVs drawn have all bytes equal
RandomIVs ==
    {[i \in 1..(DEFAULT_IV_BIT_SIZE \div BITS_PER_BYTE) |-> PlainByte(v)] :
        v \in ByteValues}

\* the bit sizes exchange_ecdh_shared_secret is called with
BitSizes == 0..MaxBitSize

\* what exchange_ecdh_shared_secret raises for a size it does not support
\* (ValueError), as a value no secret equals
UnsupportedSecretSize == [pair |-> {}, size |-> 0, exchanged |-> FALSE]

\* faulty variant: the size is not looked at
SizeSupportedAny(bit_size) == TRUE

\* crypto.py line 55: bit_size not in (256, 384), negated
SizeSupported(bit_size) == bit_size \in {256, 384}

\* the slice shared_secret[:n] of a secret of raw_bytes bytes has n bytes, or
\* all of them when there are fewer
Leading(n, raw_bytes) == IF n < raw_bytes THEN n ELSE raw_bytes

\* crypto.py lines 49-60: ValueError for an unsupported size, else the leading
\* bit_size // 8 bytes of private_key.exchange(ec.ECDH(), public_key), which
\* has raw_bytes bytes; the secret is known by the two parties it belongs to
\* and its length; exchanged says that the key agreement was made
SharedSecret(private_key, public_key, bit_size, raw_bytes) ==
    IF ~SizeSupported(bit_size)
    THEN UnsupportedSecretSize
    ELSE [pair |-> {private_key.owner, public_key.owner},
          size |-> Leading(bit_size \div BITS_PER_BYTE, raw_bytes),
          exchanged |-> TRUE]

\* the same for two keys on SECP384R1
exchange_ecdh_shared_secret(private_key, public_key, bit_size) ==
    SharedSecret(private_key, public_key, bit_size, RAW_SECRET_BYTES)

\* crypto.py lines 62-65: aesgcm.encrypt(iv, data, associated_data), the
\* ciphertext followed by the tag: opaque bytes, as many as the data has and
\* 16 more, the first of which names the sealing that made them
encrypt_aesgcm(shared_secret, iv, data, associated_data) ==
    [i \in 1..(Len(data) + AESGCM_TAG_BYTES) |->
        [kind |-> "aesgcm", v |-> i,
         of |-> IF i = 1
                THEN <<[secret |-> shared_secret, iv |-> iv, data |-> data,
                        ad |-> associated_data]>>
                ELSE <<>>]]

\* faulty variant: the IV is taken to be 16 bytes long
split_iv_from_data_16(data) ==
    LET iv_byte_size == IF Len(data) < 16 THEN Len(data) ELSE 16
    IN <<SubSeq(data, 1, iv_byte_size), SubSeq(data, iv_byte_size + 1, Len(data))>>

\* crypto.py lines 68-71: data[:iv_byte_size], data[iv_byte_size:]
split_iv_from_data(data) ==
    LET iv_bytes == DEFAULT_IV_BIT_SIZE \div BITS_PER_BYTE
        iv_byte_size == IF Len(data) < iv_bytes THEN Len(data) ELSE iv_bytes
    IN <<SubSeq(data, 1, iv_byte_size), SubSeq(data, iv_byte_size + 1, Len(data))>>

\* crypto.py lines 74-77: aesgcm.decrypt(iv, data, associated_data): the
\* plaintext when data is what AES-GCM made of it under this secret, IV and
\* associated data, InvalidTag otherwise
decrypt_aesgcm(shared_secret, iv, data, associated_data) ==
    IF /\ Len(data) >= AESGCM_TAG_BYTES
       /\ data[1].kind = "aesgcm"
       /\ data = encrypt_aesgcm(shared_secret, iv, data[1].of[1].data,
                                 associated_data)
    THEN data[1].of[1].data
    ELSE InvalidTag

\* faulty variant: the data is passed on as it came, behind the IV
encrypt_default_unsealed(private_key, public_key, data, iv) == iv \o data

\* crypto.py lines 80-92, iv being what random_iv() returned
encrypt_default(private_key, public_key, data, iv) ==
    LET shared_secret == exchange_ecdh_shared_secret(private_key, public_key,
                             DEFAULT_SHARED_SECRET_BIT_SIZE)
    IN iv \o encrypt_aesgcm(shared_secret, iv, data, <<>>)

\* crypto.py lines 95-106
decrypt_default(private_key, public_key, data) ==
    LET shared_secret == exchange_ecdh_shared_secret(private_key, public_key,
                             DEFAULT_SHARED_SECRET_BIT_SIZE)
        parts == split_iv_from_data(data)
    IN decrypt_aesgcm(shared_secret, parts[1], parts[2], <<>>)

\* no sealing or opening was made yet
NoSealing == [sender |-> 0, recipient |-> 0, data |-> <<>>, iv |-> <<>>,
              sealed |-> <<>>]
NoOpening == [by |-> "none", private |-> 0, public |-> 0, iv |-> <<>>,
              ad |-> <<>>, data |-> <<>>, result |-> <<>>]

NoAgreement == [private |-> 0, public |-> 0, bit_size |-> 0, raw_bytes |-> 0,
                result |-> UnsupportedSecretSize]

InitCrypto ==
    /\ sealing = NoSealing
    /\ opening = NoOpening
    /\ agreement = NoAgreement

\* someone derives the secret of a private and a public key
exchange(a, b, bit_size, raw_bytes) ==
    /\ agreement = NoAgreement
    /\ agreement' = [private |-> a, public |-> b, bit_size |-> bit_size,
                     raw_bytes |-> raw_bytes,
                     result |-> SharedSecret(private_key_of(a), public_key_of(b),
                                             bit_size, raw_bytes)]
    /\ UNCHANGED <<sealing, opening>>
    /\ UNCHANGED <<authVars, relayVars, serverVars, localVars>>

\* a sender seals a plaintext for a recipient
seal(a, b, m) ==
    /\ sealing = NoSealing
    /\ \E iv \in RandomIVs :
          sealing' = [sender |-> a, recipient |-> b, data |-> m, iv |-> iv,
                      sealed |-> encrypt_default(private_key_of(a),
                                                 public_key_of(b), m, iv)]
    /\ UNCHANGED <<opening, agreement>>
    /\ UNCHANGED <<authVars, relayVars, serverVars, localVars>>

\* the byte strings that differ from data in the byte at one position
Tampered(data) ==
    {[data EXCEPT ![p] = IF @.kind = "plain"
                         THEN PlainByte(1 - @.v) ELSE PlainByte(0)] :
        p \in 1..Len(data)}

\* someone opens the sealed payload, or the payload with one byte changed,
\* with decrypt_default and some private and some public key
open_default(c, d) ==
    /\ sealing # NoSealing
    /\ opening = NoOpening
    /\ \E data \in {sealing.sealed} \cup Tampered(sealing.sealed) :
          opening' = [by |-> "decrypt_default", private |-> c, public |-> d,
                      iv |-> <<>>, ad |-> <<>>, data |-> data,
                      result |-> decrypt_default(private_key_of(c),
                                                 public_key_of(d), data)]
    /\ UNCHANGED <<sealing, agreement>>
    /\ UNCHANGED <<authVars, relayVars, serverVars, localVars>>

\* someone opens the ciphertext with decrypt_aesgcm, the recipient's secret
\* and some IV and associated data
open_aesgcm ==
    /\ sealing # NoSealing
    /\ opening = NoOpening
    /\ LET secret == exchange_ecdh_shared_secret(
                         private_key_of(sealing.recipient),
                         public_key_of(sealing.sender),
                         DEFAULT_SHARED_SECRET_BIT_SIZE)
           ct == split_iv_from_data(sealing.sealed)[2]
       IN \E iv \in RandomIVs, ad \in {<<>>, <<PlainByte(0)>>} :
             opening' = [by |-> "decrypt_aesgcm",
                         private |-> sealing.recipient,
                         public |-> sealing.sender,
                         iv |-> iv, ad |-> ad, data |-> ct,
                         result |-> decrypt_aesgcm(secret, iv, ct, ad)]
    /\ UNCHANGED <<sealing, agreement>>
    /\ UNCHANGED <<authVars, relayVars, serverVars, localVars>>

(***************************************************************************)
(* Server: the routes project/server.py mounts and the dependency that     *)
(* resolves the caller, project/dependencies.py get_client_id.  FastAPI    *)
(* resolves a route's dependencies before it calls the handler; a          *)
(* dependency that raises answers the request in the handler's place.      *)
(***************************************************************************)
\* the routes of the application: server.py lines 95-133 with the routers
\* final.py, intermediate.py and local.py; depends_on_client_id says whether
\* the route declares Depends(get_client_id)
Endpoints ==
    { [operation |-> "do_healthcheck",
       depends_on_client_id |-> FALSE],
      [operation |-> "submit_final_result_to_hub",
       depends_on_client_id |-> TRUE],
      [operation |-> "submit_intermediate_result_to_hub",
       depends_on_client_id |-> TRUE],
      [operation |-> "retrieve_intermediate_result_from_hub",
       depends_on_client_id |-> TRUE],
      [operation |-> "submit_intermediate_result_to_local",
       depends_on_client_id |-> TRUE],
      [operation |-> "get_project_tags",
       depends_on_client_id |-> TRUE],
      [operation |-> "get_results_by_project_tag",
       depends_on_client_id |-> TRUE],
      [operation |-> "retrieve_intermediate_result_from_local",
       depends_on_client_id |-> TRUE],
      [operation |-> "train_with_differential_privacy",
       depends_on_client_id |-> FALSE] }

\* what a request carries as Authorization: no header, a bearer token that is
\* no JWT, a JWT past its exp, a JWT signed by a key that is not in the JWKS,
\* a JWT without the client id claim, a JWT that passes every check
Credentials == {"none", "malformed", "expired", "unsigned", "no_client_id",
                "valid"}

\* a dependency returned a value
Resolved == [status |-> 0, detail |-> "resolved"]

\* dependencies.py lines 35-55: with skip_jwt_validation an empty JWKS and no
\* request to the certs URL; otherwise the JWKS, or 502 when the request fails
get_auth_jwks(skip_jwt_validation, jwks_reachable) ==
    IF skip_jwt_validation \/ jwks_reachable
    THEN Resolved
    ELSE [status |-> HTTP_502_BAD_GATEWAY,
          detail |-> "Auth provider is unavailable"]

\* faulty variant: the token's claims and signature are not checked
TokenAcceptedAny(credentials) == credentials # "malformed"

\* dependencies.py lines 95-108: jwt.JWT with key=jwks, algs RS256 and
\* check_claims iat, exp and the client id claim does not raise
TokenAccepted(credentials) == credentials = "valid"

\* dependencies.py lines 74-112: the dependencies in the order they are
\* declared, get_auth_jwks, then HTTPBearer (line 26, 403 without a bearer
\* token); with skip_jwt_validation (lines 80-92) nothing is caught, and a
\* token that is no JWT or has no client id claim ends in an unhandled error
get_client_id(skip_jwt_validation, jwks_reachable, credentials) ==
    LET jwks == get_auth_jwks(skip_jwt_validation, jwks_reachable)
    IN IF jwks # Resolved THEN jwks
       ELSE IF credentials = "none"
       THEN [status |-> HTTP_403_FORBIDDEN, detail |-> "Not authenticated"]
       ELSE IF skip_jwt_validation
       THEN IF credentials \in {"malformed", "no_client_id"}
            THEN [status |-> HTTP_500_INTERNAL_SERVER_ERROR,
                  detail |-> "Internal Server Error"]
            ELSE Resolved
       ELSE IF TokenAccepted(credentials)
       THEN Resolved
       ELSE [status |-> HTTP_403_FORBIDDEN, detail |-> "JWT is malformed"]

\* config.py line 26: skip_jwt_validation: bool = False
DefaultSettings == [skip_jwt_validation |-> FALSE]

InitServer ==
    /\ settings = DefaultSettings
    /\ access_log = {}

\* the server answers one request
serve(endpoint, credentials, jwks_reachable) ==
    /\ Cardinality(access_log) < MaxRequests
    /\ LET client_id == IF endpoint.depends_on_client_id
                        THEN get_client_id(settings.skip_jwt_validation,
                                           jwks_reachable, credentials)
                        ELSE Resolved
       IN access_log' = access_log \cup {
              [operation |-> endpoint.operation,
               depends_on_client_id |-> endpoint.depends_on_client_id,
               credentials |-> credentials,
               jwks_reachable |-> jwks_reachable,
               handler_ran |-> client_id = Resolved,
               \* 0 and "resolved": whatever the handler answers
               response |-> client_id.status,
               detail |-> client_id.detail]}
    /\ UNCHANGED settings
    /\ UNCHANGED <<authVars, relayVars, cryptoVars, localVars>>

(***************************************************************************)
(* Local results: project/routers/local.py with the tables of              *)
(* project/crud.py.  A tag is a sequence of characters.                    *)
(***************************************************************************)
LowercaseLetters ==
    {"a", "b", "c", "d", "e", "f", "g", "h", "i", "j", "k", "l", "m",
     "n", "o", "p", "q", "r", "s", "t", "u", "v", "w", "x", "y", "z"}
Digits == {"0", "1", "2", "3", "4", "5", "6", "7", "8", "9"}

\* the characters tags are made of here: a letter and a digit the pattern
\* allows, the hyphen, and two characters it allows nowhere
TagChars == {"a", "7", "-", "A", "_"}

\* every tag of up to 3 characters, and for every length up to MaxTagLen the
\* tags made of a first character, one repeated character and a last one
TagInputs ==
    UNION {[1..n -> TagChars] : n \in 0..3}
    \cup {[i \in 1..n |-> IF i = 1 THEN first ELSE IF i = n THEN last ELSE mid] :
             n \in 4..MaxTagLen, first \in TagChars, mid \in TagChars,
             last \in TagChars}

\* the character classes of _TAG_PATTERN: [a-z0-9] and [a-z0-9-]
InAlnum(c) == c \in LowercaseLetters \cup Digits
InAlnumHyphen(c) == InAlnum(c) \/ c = "-"

\* faulty variant: the second alternative with {,31} for {,30}
is_valid_tag_33(tag) ==
    \/ /\ Len(tag) \in 1..2
       /\ \A i \in 1..Len(tag) : InAlnum(tag[i])
    \/ /\ Len(tag) >= 2
       /\ InAlnum(tag[1])
       /\ Len(tag) - 2 <= 31
       /\ \A i \in 2..(Len(tag) - 1) : InAlnumHyphen(tag[i])
       /\ InAlnum(tag[Len(tag)])

\* faulty variant: every tag passes
is_valid_tag_any(tag) == TRUE

\* local.py lines 37-41: _TAG_PATTERN.fullmatch(tag) is not None, the pattern
\* being [a-z0-9]{1,2}|[a-z0-9][a-z0-9-]{,30}[a-z0-9]: the whole tag matches
\* the first alternative or the second
is_valid_tag(tag) ==
    \/ /\ Len(tag) \in 1..2
       /\ \A i \in 1..Len(tag) : InAlnum(tag[i])
    \/ /\ Len(tag) >= 2
       /\ InAlnum(tag[1])
       /\ Len(tag) - 2 <= 30
       /\ \A i \in 2..(Len(tag) - 1) : InAlnumHyphen(tag[i])
       /\ InAlnum(tag[Len(tag)])

\* no is_valid_tag call was made so far
NoCheck == [tag |-> <<>>, called |-> FALSE, valid |-> FALSE]

\* is_valid_tag is called with a tag
check_tag(tag) ==
    /\ ~tag_check.called
    /\ tag_check' = [tag |-> tag, called |-> TRUE, valid |-> is_valid_tag(tag)]
    /\ UNCHANGED <<local_objects, tag_rows, result_rows, tagged_result_rows,
                   puts, gets>>
    /\ UNCHANGED <<authVars, relayVars, cryptoVars, serverVars>>

\* the callers: analyses a1 and a2 belong to project p1, a3 to p2, and the hub
\* knows no analysis a4
LocalClients == {"a1", "a2", "a3", "a4"}
NoAnalysis == "None"

\* core_client.get_analysis(analysis_id), and of its answer the project id;
\* None for an analysis the hub does not know
get_analysis(analysis_id) ==
    CASE analysis_id \in {"a1", "a2"} -> "p1"
      [] analysis_id = "a3" -> "p2"
      [] OTHER -> NoAnalysis

\* the request came without a tag (tag is None)
NoTag == <<"None">>
\* the tags PUT /local is called with: none, two valid ones, one not valid
LocalTags == {NoTag, <<"r", "1">>, <<"r", "-", "2">>, <<"r", "-">>}

\* the filename of the file part of the r-th PUT /local; "" for a part that
\* names none
FileNameOf(r) == IF r % 2 = 0 THEN "" ELSE "model.bin"

PutIds == 1..MaxPuts

\* the bytes the r-th PUT /local submits
LocalFile(r) == [i \in 1..MaxLen |-> PlainByte((r + i) % 2)]

\* request.url_for("retrieve_intermediate_result_from_local", object_id=...)
LocalUrl(object_id) == <<"local", object_id>>

NewPut ==
    [ pc         |-> "new",
      client_id  |-> "None",
      tag        |-> NoTag,
      filename   |-> "",
      project_id |-> NoAnalysis,
      tag_id     |-> 0,       \* the Tag row get_or_create returned
      response   |-> 0,       \* status code answered, 0: none so far
      detail     |-> "none",
      url        |-> <<>> ]   \* the url of the 200 answer

\* no GET request under /local was answered so far
NoGet ==
    [ operation |-> "none", client_id |-> "None", tag_name |-> NoTag,
      object_id |-> 0, response |-> 0, tags |-> {}, results |-> {},
      body |-> <<>> ]

InitLocal ==
    /\ local_objects = {}
    /\ tag_rows = {}
    /\ result_rows = {}
    /\ tagged_result_rows = {}
    /\ puts = [r \in PutIds |-> NewPut]
    /\ gets = NoGet
    /\ tag_check = NoCheck

\* the request ends with an error status
PutAnswer(r, status, detail) ==
    puts' = [puts EXCEPT ![r].response = status,
                         ![r].detail = detail,
                         ![r].pc = "end"]

\* lines 141-159 (and 175-182 without a tag): the tag is validated, the
\* object id drawn (the r-th request draws r), the file put into MinIO under
\* local/{client_id}/{object_id}
submit_intermediate_result_to_local(r) ==
    /\ puts[r].pc = "new"
    /\ \E client_id \in LocalClients, tag \in LocalTags :
          LET has_tag == tag # NoTag
              arrived == [puts[r] EXCEPT !.client_id = client_id,
                                         !.tag = tag,
                                         !.filename = FileNameOf(r)]
          IN IF has_tag /\ ~is_valid_tag(tag)
             THEN /\ puts' = [puts EXCEPT ![r] =
                         [arrived EXCEPT !.response = HTTP_400_BAD_REQUEST,
                                         !.detail = "Invalid tag",
                                         !.pc = "end"]]
                  /\ UNCHANGED local_objects
             ELSE /\ local_objects' = local_objects \cup
                         {[client_id |-> client_id, object_id |-> r,
                           data |-> LocalFile(r)]}
                  /\ puts' = [puts EXCEPT ![r] =
                         IF has_tag
                         THEN [arrived EXCEPT !.pc = "get_analysis"]
                         ELSE [arrived EXCEPT !.response = HTTP_200_OK,
                                              !.url = LocalUrl(r),
                                              !.pc = "end"]]
    /\ UNCHANGED <<tag_rows, result_rows, tagged_result_rows, gets, tag_check>>
    /\ UNCHANGED <<authVars, relayVars, cryptoVars, serverVars>>

\* lines 161-163 with 66-75: _get_project_id_for_analysis_or_raise
lc_get_analysis(r) ==
    /\ puts[r].pc = "get_analysis"
    /\ LET project_id == get_analysis(puts[r].client_id)
       IN \/ IF project_id = NoAnalysis
             THEN PutAnswer(r, HTTP_404_NOT_FOUND, "Analysis not found")
             ELSE puts' = [puts EXCEPT ![r].project_id = project_id,
                                       ![r].pc = "tag_get"]
          \* HubAPIError
          \/ PutAnswer(r, HTTP_502_BAD_GATEWAY, "get_analysis")
    /\ UNCHANGED <<local_objects, tag_rows, result_rows, tagged_result_rows,
                   gets, tag_check>>
    /\ UNCHANGED <<authVars, relayVars, cryptoVars, serverVars>>

\* the Tag rows with a name and a project
TagRowsOf(tag_name, project_id) ==
    {row \in tag_rows : row.tag_name = tag_name /\ row.project_id = project_id}

\* the row a query's get() returns: the first of the rows selected
FirstRow(rows) == CHOOSE row \in rows : \A other \in rows : row.id <= other.id

\* the id an insert gives a new row of a table
NextId(rows) == Cardinality(rows) + 1

\* line 166, Tag.get_or_create: the select; a row found is the tag
lc_tag_get(r) ==
    /\ puts[r].pc = "tag_get"
    /\ LET found == TagRowsOf(puts[r].tag, puts[r].project_id)
       IN puts' = [puts EXCEPT
              ![r].tag_id = IF found = {} THEN 0 ELSE FirstRow(found).id,
              ![r].pc = IF found = {} THEN "tag_create" ELSE "rows"]
    /\ UNCHANGED <<local_objects, tag_rows, result_rows, tagged_result_rows,
                   gets, tag_check>>
    /\ UNCHANGED <<authVars, relayVars, cryptoVars, serverVars>>

\* faulty variant: the table has no unique index
TagIndexViolatedNever(tag_name, project_id) == FALSE

\* crud.py lines 16-17: the unique index on (tag_name, project_id) refuses a
\* second row with the same pair
TagIndexViolated(tag_name, project_id) == TagRowsOf(tag_name, project_id) # {}

\* line 166, Tag.get_or_create after the select found nothing: the insert,
\* and when the index refuses it (IntegrityError) the select once more
lc_tag_create(r) ==
    /\ puts[r].pc = "tag_create"
    /\ IF TagIndexViolated(puts[r].tag, puts[r].project_id)
       THEN /\ puts' = [puts EXCEPT
                   ![r].tag_id = FirstRow(TagRowsOf(puts[r].tag,
                                                    puts[r].project_id)).id,
                   ![r].pc = "rows"]
            /\ UNCHANGED tag_rows
       ELSE /\ tag_rows' = tag_rows \cup
                   {[id |-> NextId(tag_rows), tag_name |-> puts[r].tag,
                     project_id |-> puts[r].project_id]}
            /\ puts' = [puts EXCEPT ![r].tag_id = NextId(tag_rows),
                                    ![r].pc = "rows"]
    /\ UNCHANGED <<local_objects, result_rows, tagged_result_rows, gets,
                   tag_check>>
    /\ UNCHANGED <<authVars, relayVars, cryptoVars, serverVars>>

\* line 171: file.filename or "data.bin"
StoredFileName(filename) == IF filename = "" THEN "data.bin" ELSE filename

\* lines 168-182: Result.create, TaggedResult.create, the 200 answer
lc_rows(r) ==
    /\ puts[r].pc = "rows"
    /\ LET result == [id |-> NextId(result_rows),
                      client_id |-> puts[r].client_id,
                      object_id |-> r,
                      filename |-> StoredFileName(puts[r].filename)]
       IN /\ result_rows' = result_rows \cup {result}
          /\ tagged_result_rows' = tagged_result_rows \cup
                 {[tag |-> puts[r].tag_id, result |-> result.id]}
    /\ puts' = [puts EXCEPT ![r].response = HTTP_200_OK,
                            ![r].url = LocalUrl(r),
                            ![r].pc = "end"]
    /\ UNCHANGED <<local_objects, tag_rows, gets, tag_check>>
    /\ UNCHANGED <<authVars, relayVars, cryptoVars, serverVars>>

\* a GET ends with an error status
GetAnswer(operation, client_id, tag_name, object_id, status) ==
    gets' = [NoGet EXCEPT !.operation = operation, !.client_id = client_id,
                          !.tag_name = tag_name, !.object_id = object_id,
                          !.response = status]

\* lines 185-217: GET /local/tags
get_project_tags(client_id) ==
    /\ LET project_id == get_analysis(client_id)
       IN \/ IF project_id = NoAnalysis
             THEN GetAnswer("get_project_tags", client_id, NoTag, 0,
                            HTTP_404_NOT_FOUND)
             ELSE gets' = [NoGet EXCEPT
                      !.operation = "get_project_tags",
                      !.client_id = client_id,
                      !.response = HTTP_200_OK,
                      !.tags = {[name |-> row.tag_name,
                                 url |-> <<"local", "tags", row.tag_name>>] :
                                   row \in {t \in tag_rows :
                                              t.project_id = project_id}}]
          \* HubAPIError
          \/ GetAnswer("get_project_tags", client_id, NoTag, 0,
                       HTTP_502_BAD_GATEWAY)
    /\ UNCHANGED <<local_objects, tag_rows, result_rows, tagged_result_rows,
                   puts, tag_check>>
    /\ UNCHANGED <<authVars, relayVars, cryptoVars, serverVars>>

\* faulty variant: the project is not part of the condition
TaggedResultsOfAnyProject(project_id, tag_name) ==
    {result \in result_rows :
        \E link \in tagged_result_rows, tag \in tag_rows :
            /\ link.result = result.id
            /\ link.tag = tag.id
            /\ tag.tag_name = tag_name}

\* lines 241-246: Result joined to TaggedResult joined to Tag, where the tag
\* has the project and the name
TaggedResultsOf(project_id, tag_name) ==
    {result \in result_rows :
        \E link \in tagged_result_rows, tag \in tag_rows :
            /\ link.result = result.id
            /\ link.tag = tag.id
            /\ tag.project_id = project_id
            /\ tag.tag_name = tag_name}

\* lines 220-258: GET /local/tags/{tag_name}
get_results_by_project_tag(client_id, tag_name) ==
    /\ LET project_id == get_analysis(client_id)
       IN \/ IF project_id = NoAnalysis
             THEN GetAnswer("get_results_by_project_tag", client_id, tag_name,
                            0, HTTP_404_NOT_FOUND)
             ELSE gets' = [NoGet EXCEPT
                      !.operation = "get_results_by_project_tag",
                      !.client_id = client_id,
                      !.tag_name = tag_name,
                      !.response = HTTP_200_OK,
                      !.results = {[filename |-> result.filename,
                                    url |-> LocalUrl(result.object_id)] :
                                      result \in TaggedResultsOf(project_id,
                                                                 tag_name)}]
          \* HubAPIError
          \/ GetAnswer("get_results_by_project_tag", client_id, tag_name, 0,
                       HTTP_502_BAD_GATEWAY)
    /\ UNCHANGED <<local_objects, tag_rows, result_rows, tagged_result_rows,
                   puts, tag_check>>
    /\ UNCHANGED <<authVars, relayVars, cryptoVars, serverVars>>

\* faulty variant: the object is looked up by its id alone
LocalObjectOfAnyone(client_id, object_id) ==
    {o \in local_objects : o.object_id = object_id}

\* lines 273-276: the objects named local/{client_id}/{object_id}
LocalObject(client_id, object_id) ==
    {o \in local_objects : o.client_id = client_id /\ o.object_id = object_id}

\* lines 261-295: GET /local/{object_id}: the object local/{client_id}/
\* {object_id}, 404 for NoSuchKey, 502 for any other S3Error
retrieve_intermediate_result_from_local(client_id, object_id) ==
    /\ LET found == LocalObject(client_id, object_id)
       IN \/ IF found = {}
             THEN GetAnswer("retrieve_intermediate_result_from_local",
                            client_id, NoTag, object_id, HTTP_404_NOT_FOUND)
             ELSE gets' = [NoGet EXCEPT
                      !.operation = "retrieve_intermediate_result_from_local",
                      !.client_id = client_id,
                      !.object_id = object_id,
                      !.response = HTTP_200_OK,
                      !.body = (CHOOSE o \in found : TRUE).data]
          \* an S3Error other than NoSuchKey
          \/ GetAnswer("retrieve_intermediate_result_from_local", client_id,
                       NoTag, object_id, HTTP_502_BAD_GATEWAY)
    /\ UNCHANGED <<local_objects, tag_rows, result_rows, tagged_result_rows,
                   puts, tag_check>>
    /\ UNCHANGED <<authVars, relayVars, cryptoVars, serverVars>>

(***************************************************************************)
(* Relay: project/routers/final.py, upload.py, scratch.py, intermediate.py *)
(***************************************************************************)
Tickets == 1..MaxTickets
BucketTypes == {"RESULT", "TEMP"}

\* the k-th file record the hub created for the upload of ticket t
FileId(t, k) == <<t, k>>
NoFile == <<>>
\* Python's None where an AnalysisBucket is expected
NoBucket == [type |-> "None", id |-> 0, external_id |-> <<>>]

\* the node the service runs on (get_ecdh_private_key) and the remote node a
\* request designates, as parties with a key pair
ThisNode == 1
RemoteNode == 2

\* the bytes of the file a request submits
SubmittedFile(t) == [i \in 1..MaxLen |-> PlainByte((t + i) % 2)]

NewTicket ==
    [ route           |-> "none",   \* the endpoint, once submitted
      pc              |-> "new",
      response        |-> 0,        \* status code answered, 0: none so far
      remote_node_id  |-> FALSE,    \* whether a recipient node was designated
      result_file     |-> <<>>,     \* the bytes read from the request, then sealed
      content         |-> <<>>,     \* "content" of the PUT /intermediate upload call
      minio_resp      |-> "None",   \* "None", "open" or "closed"
      analysis_bucket |-> NoBucket, \* the bucket record the last lookup gave
      uploaded_to     |-> <<>>,     \* the storage bucket the upload call named
      linked_to       |-> NoBucket, \* the bucket record the link call named
      bucket_file_lst |-> <<>>,     \* the file records the upload answered with
      answered        |-> FALSE,    \* whether the upload call returned a list
      error           |-> "none",   \* what ended the relay, "none": nothing so far
      \* observations (history, not program state)
      no_bucket       |-> FALSE,    \* PUT /intermediate came with the bucket missing
      lookups         |-> 0,        \* bucket lookups made
      uploads         |-> 0,        \* upload calls made
      links           |-> 0,        \* link calls made
      linked          |-> NoFile ]  \* the file the link call named

\* no GET request was answered so far
NoRead == [object_id |-> NoFile, response |-> 0, body |-> <<>>,
           returned |-> FALSE]

InitRelay ==
    /\ analysis_buckets = {}
    /\ bucket_records = [type \in BucketTypes |-> 0]
    /\ node_public_key = FALSE
    /\ bucket_files = {}
    /\ analysis_bucket_files = EmptyBag
    /\ minio_objects = {}
    /\ object_id_to_hub_bucket_dict = <<>>
    /\ tickets = [t \in Tickets |-> NewTicket]
    /\ reads = NoRead

Init == InitAuth /\ InitRelay /\ InitCrypto /\ InitServer /\ InitLocal

\* the hub provisions a bucket of the analysis (asynchronously): a new
\* analysis-bucket record with a storage bucket of its own
hub_provisions_bucket ==
    /\ \E b \in BucketTypes \ analysis_buckets :
          /\ bucket_records[b] < MaxBucketRecords
          /\ analysis_buckets' = analysis_buckets \cup {b}
          /\ bucket_records' = [bucket_records EXCEPT ![b] = @ + 1]
    /\ UNCHANGED <<node_public_key, bucket_files, analysis_bucket_files,
                   minio_objects, tickets>>
    /\ UNCHANGED <<object_id_to_hub_bucket_dict, reads, authVars, cryptoVars, serverVars, localVars>>

\* the hub drops the bucket record of one type (the analysis is reset or its
\* buckets are cleaned up); a later provisioning makes a new record
hub_removes_bucket ==
    /\ \E b \in analysis_buckets :
          analysis_buckets' = analysis_buckets \ {b}
    /\ UNCHANGED <<bucket_records, node_public_key, bucket_files,
                   analysis_bucket_files, minio_objects, tickets>>
    /\ UNCHANGED <<object_id_to_hub_bucket_dict, reads, authVars, cryptoVars, serverVars, localVars>>

\* the remote node publishes its public key (update_node)
hub_node_publishes_key ==
    /\ ~node_public_key
    /\ node_public_key' = TRUE
    /\ UNCHANGED <<analysis_buckets, bucket_files, analysis_bucket_files,
                   minio_objects, tickets>>
    /\ UNCHANGED <<object_id_to_hub_bucket_dict, reads, bucket_records, authVars, cryptoVars, serverVars, localVars>>

\* what the hub answers to a lookup of the analysis buckets of one type
AnalysisBucketList(type) ==
    IF type \in analysis_buckets
    THEN <<[type |-> type, id |-> bucket_records[type],
            external_id |-> <<type, bucket_records[type]>>]>>
    ELSE <<>>

\* the file records an upload of ticket t that answers with n records creates
UploadedFiles(t, n) == [k \in 1..n |-> FileId(t, k)]

\* final.py lines 66-70, the finally block of __bg_upload_to_remote:
\* if minio_resp is not None: minio_resp.close(); minio_resp.release_conn()
Finally(minio_resp) == IF minio_resp # "None" THEN "closed" ELSE minio_resp

\* the relay of ticket t stops with an exception and runs its finally block
BgRaise(t, why) ==
    tickets' = [tickets EXCEPT ![t].error = why,
                               ![t].minio_resp = Finally(@),
                               ![t].pc = "end"]

\* the same for an exception of a bucket lookup
BgLookupRaise(t, why) ==
    tickets' = [tickets EXCEPT ![t].lookups = @ + 1,
                               ![t].error = why,
                               ![t].minio_resp = Finally(@),
                               ![t].pc = "end"]

\* ---- PUT /final: submit_final_result_to_hub, final.py lines 79-110

\* faulty variant: the object key is made of the client id alone
object_name_of_client(t) == 1

\* final.py lines 91-92: object_name = upload/{client_id}/{uuid.uuid4()}; the
\* t-th request draws the t-th id
object_name(t) == t

\* put_object into the local store, add_task, answer
submit_final_result_to_hub(t) ==
    /\ tickets[t].route = "none"
    /\ \/ /\ minio_objects' = minio_objects \cup {object_name(t)}
          /\ tickets' = [tickets EXCEPT ![t].route = "final",
                                        ![t].response = HTTP_204_NO_CONTENT,
                                        ![t].pc = "bg_get_object"]
       \* put_object raises: no task is added, the server answers 500
       \/ /\ tickets' = [tickets EXCEPT ![t].route = "final",
                                        ![t].response = HTTP_500_INTERNAL_SERVER_ERROR,
                                        ![t].error = "put_object",
                                        ![t].pc = "end"]
          /\ UNCHANGED minio_objects
    /\ UNCHANGED <<analysis_buckets, node_public_key, bucket_files,
                   analysis_bucket_files>>
    /\ UNCHANGED <<object_id_to_hub_bucket_dict, reads, bucket_records, authVars, cryptoVars, serverVars, localVars>>

\* ---- __bg_upload_to_remote, final.py lines 24-70

\* FlameCoreClient.get_analysis_bucket, hub.py lines 444-455: the one bucket
\* of the list, None for an empty list
get_analysis_bucket(type) ==
    LET lst == AnalysisBucketList(type)
    IN IF Len(lst) = 1 THEN lst[1] ELSE NoBucket


\* line 42: minio_resp = minio.get_object(bucket_name, object_name)
bg_get_object(t) ==
    /\ tickets[t].pc = "bg_get_object"
    /\ \/ /\ object_name(t) \in minio_objects
          /\ tickets' = [tickets EXCEPT ![t].minio_resp = "open",
                                        ![t].pc = "bg_get_analysis_bucket"]
       \/ BgRaise(t, "get_object")
    /\ UNCHANGED <<analysis_buckets, node_public_key, bucket_files,
                   analysis_bucket_files, minio_objects>>
    /\ UNCHANGED <<object_id_to_hub_bucket_dict, reads, bucket_records, authVars, cryptoVars, serverVars, localVars>>

\* line 45: analysis_bucket = core_client.get_analysis_bucket(client_id, "RESULT");
\* None makes analysis_bucket.external_id (line 49) raise before the upload is sent
bg_get_analysis_bucket(t) ==
    /\ tickets[t].pc = "bg_get_analysis_bucket"
    /\ \/ IF get_analysis_bucket("RESULT") # NoBucket
          THEN tickets' = [tickets EXCEPT
                   ![t].lookups = @ + 1,
                   ![t].analysis_bucket = get_analysis_bucket("RESULT"),
                   ![t].pc = "bg_upload"]
          ELSE BgLookupRaise(t, "no_bucket")
       \/ BgLookupRaise(t, "get_analysis_bucket")
    /\ UNCHANGED <<analysis_buckets, node_public_key, bucket_files,
                   analysis_bucket_files, minio_objects>>
    /\ UNCHANGED <<object_id_to_hub_bucket_dict, reads, bucket_records, authVars, cryptoVars, serverVars, localVars>>

\* faulty variant: the check of the number of file records is missing
SingleFileAny(lst) == Len(lst) >= 1

\* line 56: assert len(bucket_file_lst.data) == 1, and line 89 of intermediate.py
SingleFile(lst) == Len(lst) = 1

\* lines 48-58: upload_to_bucket, the assert, bucket_file = bucket_file_lst.data[0]
bg_upload(t) ==
    /\ tickets[t].pc = "bg_upload"
    /\ \/ \E n \in 0..MaxRecords :
             LET lst == UploadedFiles(t, n)
             IN /\ bucket_files' = bucket_files \cup {lst[k] : k \in 1..n}
                /\ tickets' = [tickets EXCEPT
                       ![t].uploads = @ + 1,
                       ![t].uploaded_to = tickets[t].analysis_bucket.external_id,
                       ![t].bucket_file_lst = lst,
                       ![t].answered = TRUE,
                       ![t].error = IF SingleFile(lst) THEN @ ELSE "assert",
                       ![t].minio_resp = IF SingleFile(lst) THEN @ ELSE Finally(@),
                       ![t].pc = IF SingleFile(lst)
                                 THEN "bg_get_analysis_bucket_2" ELSE "end"]
       \/ /\ tickets' = [tickets EXCEPT ![t].uploads = @ + 1,
                                        ![t].error = "upload_to_bucket",
                                        ![t].minio_resp = Finally(@),
                                        ![t].pc = "end"]
          /\ UNCHANGED bucket_files
    /\ UNCHANGED <<analysis_buckets, node_public_key, analysis_bucket_files,
                   minio_objects>>
    /\ UNCHANGED <<object_id_to_hub_bucket_dict, reads, bucket_records, authVars, cryptoVars, serverVars, localVars>>

\* line 59: analysis_bucket = core_client.get_analysis_bucket(client_id, "RESULT");
\* None makes analysis_bucket.id (line 62) raise before the link is sent
bg_get_analysis_bucket_2(t) ==
    /\ tickets[t].pc = "bg_get_analysis_bucket_2"
    /\ \/ IF get_analysis_bucket("RESULT") # NoBucket
          THEN tickets' = [tickets EXCEPT
                   ![t].lookups = @ + 1,
                   ![t].analysis_bucket = get_analysis_bucket("RESULT"),
                   ![t].pc = "bg_link"]
          ELSE BgLookupRaise(t, "no_bucket")
       \/ BgLookupRaise(t, "get_analysis_bucket")
    /\ UNCHANGED <<analysis_buckets, node_public_key, bucket_files,
                   analysis_bucket_files, minio_objects>>
    /\ UNCHANGED <<object_id_to_hub_bucket_dict, reads, bucket_records, authVars, cryptoVars, serverVars, localVars>>

\* faulty variant: a failed link is sent once more
AfterFailedLinkRetry(route) ==
    CASE route = "final" -> "bg_link"
      [] route = "upload" -> "up_link"
      [] route = "scratch" -> "sc_link"
      [] OTHER -> "im_link"

\* where a relay goes when its link call failed
AfterFailedLink(route) == "end"

\* faulty variant: remove_object comes before the link call
bg_link_after_remove(t) ==
    /\ tickets[t].pc = "bg_link"
    /\ minio_objects' = minio_objects \ {t}
    /\ LET bucket_file == tickets[t].bucket_file_lst[1]
       IN \/ /\ analysis_bucket_files' =
                    analysis_bucket_files (+) SetToBag({bucket_file})
             /\ tickets' = [tickets EXCEPT ![t].links = @ + 1,
                                           ![t].linked = bucket_file,
                                           ![t].minio_resp = Finally(@),
                                           ![t].pc = "end"]
          \/ /\ tickets' = [tickets EXCEPT
                    ![t].links = @ + 1,
                    ![t].linked = bucket_file,
                    ![t].error = "link_bucket_file_to_analysis",
                    ![t].minio_resp = Finally(@),
                    ![t].pc = "end"]
             /\ UNCHANGED analysis_bucket_files
    /\ UNCHANGED <<analysis_buckets, node_public_key, bucket_files>>
    /\ UNCHANGED <<object_id_to_hub_bucket_dict, reads, bucket_records, authVars, cryptoVars, serverVars, localVars>>

\* lines 61-63: link_bucket_file_to_analysis(analysis_bucket.id, bucket_file.id, ...)
bg_link(t) ==
    /\ tickets[t].pc = "bg_link"
    /\ LET bucket_file == tickets[t].bucket_file_lst[1]
       IN \/ /\ analysis_bucket_files' =
                    analysis_bucket_files (+) SetToBag({bucket_file})
             /\ tickets' = [tickets EXCEPT
                    ![t].links = @ + 1,
                    ![t].linked = bucket_file,
                    ![t].linked_to = tickets[t].analysis_bucket,
                    ![t].pc = "bg_remove_object"]
          \/ /\ tickets' = [tickets EXCEPT
                    ![t].links = @ + 1,
                    ![t].linked = bucket_file,
                    ![t].error = "link_bucket_file_to_analysis",
                    ![t].minio_resp = Finally(@),
                    ![t].pc = AfterFailedLink("final")]
             /\ UNCHANGED analysis_bucket_files
    /\ UNCHANGED <<analysis_buckets, node_public_key, bucket_files, minio_objects>>
    /\ UNCHANGED <<object_id_to_hub_bucket_dict, reads, bucket_records, authVars, cryptoVars, serverVars, localVars>>

\* faulty variant: the relay ends after the link and leaves the local object
bg_remove_object_skipped(t) ==
    /\ tickets[t].pc = "bg_remove_object"
    /\ tickets' = [tickets EXCEPT ![t].minio_resp = Finally(@),
                                  ![t].pc = "end"]
    /\ UNCHANGED <<analysis_buckets, node_public_key, bucket_files,
                   analysis_bucket_files, minio_objects>>
    /\ UNCHANGED <<object_id_to_hub_bucket_dict, reads, bucket_records, authVars, cryptoVars, serverVars, localVars>>

\* line 65: minio.remove_object(bucket_name, object_name)
bg_remove_object(t) ==
    /\ tickets[t].pc = "bg_remove_object"
    /\ \/ /\ minio_objects' = minio_objects \ {object_name(t)}
          /\ tickets' = [tickets EXCEPT ![t].minio_resp = Finally(@),
                                        ![t].pc = "end"]
       \/ /\ BgRaise(t, "remove_object")
          /\ UNCHANGED minio_objects
    /\ UNCHANGED <<analysis_buckets, node_public_key, bucket_files,
                   analysis_bucket_files>>
    /\ UNCHANGED <<object_id_to_hub_bucket_dict, reads, bucket_records, authVars, cryptoVars, serverVars, localVars>>

\* ---- PUT /upload: upload_to_remote, upload.py lines 72-105

\* put_object into the local store, add_task, answer
upload_to_remote(t) ==
    /\ tickets[t].route = "none"
    /\ \/ /\ minio_objects' = minio_objects \cup {t}
          /\ tickets' = [tickets EXCEPT ![t].route = "upload",
                                        ![t].response = HTTP_204_NO_CONTENT,
                                        ![t].pc = "up_get_object"]
       \/ /\ tickets' = [tickets EXCEPT ![t].route = "upload",
                                        ![t].response = HTTP_500_INTERNAL_SERVER_ERROR,
                                        ![t].error = "put_object",
                                        ![t].pc = "end"]
          /\ UNCHANGED minio_objects
    /\ UNCHANGED <<analysis_buckets, node_public_key, bucket_files,
                   analysis_bucket_files>>
    /\ UNCHANGED <<object_id_to_hub_bucket_dict, reads, bucket_records, authVars, cryptoVars, serverVars, localVars>>

\* ---- __bg_upload_to_remote, upload.py lines 23-63

\* line 40: minio_resp = minio.get_object(bucket_name, object_name)
up_get_object(t) ==
    /\ tickets[t].pc = "up_get_object"
    /\ \/ /\ t \in minio_objects
          /\ tickets' = [tickets EXCEPT ![t].minio_resp = "open",
                                        ![t].pc = "up_upload"]
       \/ BgRaise(t, "get_object")
    /\ UNCHANGED <<analysis_buckets, node_public_key, bucket_files,
                   analysis_bucket_files, minio_objects>>
    /\ UNCHANGED <<object_id_to_hub_bucket_dict, reads, bucket_records, authVars, cryptoVars, serverVars, localVars>>

\* lines 42-52: upload_to_bucket (the bucket is named, not looked up), the
\* assert, bucket_file = bucket_file_lst.data[0]
up_upload(t) ==
    /\ tickets[t].pc = "up_upload"
    /\ \/ /\ "RESULT" \in analysis_buckets
          /\ \E n \in 0..MaxRecords :
             LET lst == UploadedFiles(t, n)
             IN /\ bucket_files' = bucket_files \cup {lst[k] : k \in 1..n}
                /\ tickets' = [tickets EXCEPT
                       ![t].uploads = @ + 1,
                       ![t].bucket_file_lst = lst,
                       ![t].answered = TRUE,
                       ![t].error = IF SingleFile(lst) THEN @ ELSE "assert",
                       ![t].minio_resp = IF SingleFile(lst) THEN @ ELSE Finally(@),
                       ![t].pc = IF SingleFile(lst) THEN "up_link" ELSE "end"]
       \/ /\ tickets' = [tickets EXCEPT ![t].uploads = @ + 1,
                                        ![t].error = "upload_to_bucket",
                                        ![t].minio_resp = Finally(@),
                                        ![t].pc = "end"]
          /\ UNCHANGED bucket_files
    /\ UNCHANGED <<analysis_buckets, node_public_key, analysis_bucket_files,
                   minio_objects>>
    /\ UNCHANGED <<object_id_to_hub_bucket_dict, reads, bucket_records, authVars, cryptoVars, serverVars, localVars>>

\* lines 54-56: link_bucket_file_to_analysis(client_id, bucket_file.id, ...)
up_link(t) ==
    /\ tickets[t].pc = "up_link"
    /\ LET bucket_file == tickets[t].bucket_file_lst[1]
       IN \/ /\ analysis_bucket_files' =
                    analysis_bucket_files (+) SetToBag({bucket_file})
             /\ tickets' = [tickets EXCEPT ![t].links = @ + 1,
                                           ![t].linked = bucket_file,
                                           ![t].pc = "up_remove_object"]
          \/ /\ tickets' = [tickets EXCEPT
                    ![t].links = @ + 1,
                    ![t].linked = bucket_file,
                    ![t].error = "link_bucket_file_to_analysis",
                    ![t].minio_resp = Finally(@),
                    ![t].pc = AfterFailedLink("upload")]
             /\ UNCHANGED analysis_bucket_files
    /\ UNCHANGED <<analysis_buckets, node_public_key, bucket_files, minio_objects>>
    /\ UNCHANGED <<object_id_to_hub_bucket_dict, reads, bucket_records, authVars, cryptoVars, serverVars, localVars>>

\* line 58: minio.remove_object(bucket_name, object_name)
up_remove_object(t) ==
    /\ tickets[t].pc = "up_remove_object"
    /\ \/ /\ minio_objects' = minio_objects \ {t}
          /\ tickets' = [tickets EXCEPT ![t].minio_resp = Finally(@),
                                        ![t].pc = "end"]
       \/ /\ BgRaise(t, "remove_object")
          /\ UNCHANGED minio_objects
    /\ UNCHANGED <<analysis_buckets, node_public_key, bucket_files,
                   analysis_bucket_files>>
    /\ UNCHANGED <<object_id_to_hub_bucket_dict, reads, bucket_records, authVars, cryptoVars, serverVars, localVars>>

\* ---- PUT /scratch: upload_to_scratch, scratch.py lines 73-119

\* the dict with object id t set to v
DictSet(t, v) ==
    [u \in (DOMAIN object_id_to_hub_bucket_dict) \cup {t} |->
        IF u = t THEN v ELSE object_id_to_hub_bucket_dict[u]]

\* put_object into the local store, the dict entry set to None, add_task, answer
upload_to_scratch(t) ==
    /\ tickets[t].route = "none"
    /\ \/ /\ minio_objects' = minio_objects \cup {t}
          /\ object_id_to_hub_bucket_dict' = DictSet(t, NoFile)
          /\ tickets' = [tickets EXCEPT ![t].route = "scratch",
                                        ![t].result_file = SubmittedFile(t),
                                        ![t].response = HTTP_200_OK,
                                        ![t].pc = "sc_get_object"]
       \/ /\ tickets' = [tickets EXCEPT ![t].route = "scratch",
                                        ![t].response = HTTP_500_INTERNAL_SERVER_ERROR,
                                        ![t].error = "put_object",
                                        ![t].pc = "end"]
          /\ UNCHANGED <<minio_objects, object_id_to_hub_bucket_dict>>
    /\ UNCHANGED <<analysis_buckets, node_public_key, bucket_files,
                   analysis_bucket_files>>
    /\ UNCHANGED <<reads, bucket_records, authVars, cryptoVars, serverVars, localVars>>

\* ---- __bg_upload_to_remote, scratch.py lines 33-64

\* scratch.py lines 61-64, the finally block: the test is `if minio is not
\* None`, which always holds, so with minio_resp None minio_resp.close()
\* raises AttributeError in place of the exception under way
ScFinallyError(minio_resp, why) ==
    IF minio_resp = "None" THEN "AttributeError" ELSE why

\* the relay of ticket t stops with an exception and runs its finally block
ScRaise(t, why) ==
    tickets' = [tickets EXCEPT
        ![t].error = ScFinallyError(tickets[t].minio_resp, why),
        ![t].minio_resp = Finally(@),
        ![t].pc = "end"]

\* line 48: minio_resp = minio.get_object(bucket_name, object_name)
sc_get_object(t) ==
    /\ tickets[t].pc = "sc_get_object"
    /\ \/ /\ t \in minio_objects
          /\ tickets' = [tickets EXCEPT ![t].minio_resp = "open",
                                        ![t].pc = "sc_upload"]
       \/ ScRaise(t, "get_object")
    /\ UNCHANGED <<analysis_buckets, node_public_key, bucket_files,
                   analysis_bucket_files, minio_objects>>
    /\ UNCHANGED <<object_id_to_hub_bucket_dict, reads, bucket_records, authVars, cryptoVars, serverVars, localVars>>

\* faulty variant: the upload carries no data
ScUploadedDataNone(result_file) == <<>>

\* line 52: io.BytesIO(minio_resp.data), the bytes of the object as the PUT
\* stored them
ScUploadedData(result_file) == result_file

\* lines 49-57: upload_to_bucket("analysis-temp-files.<client_id>", ...), the
\* assert, bucket_file = bucket_file_lst[0]
sc_upload(t) ==
    /\ tickets[t].pc = "sc_upload"
    /\ \/ /\ "TEMP" \in analysis_buckets
          /\ \E n \in 0..MaxRecords :
             LET lst == UploadedFiles(t, n)
             IN /\ bucket_files' = bucket_files \cup {lst[k] : k \in 1..n}
                /\ tickets' = [tickets EXCEPT
                       ![t].uploads = @ + 1,
                       ![t].content = ScUploadedData(tickets[t].result_file),
                       ![t].bucket_file_lst = lst,
                       ![t].answered = TRUE,
                       ![t].error = IF SingleFile(lst) THEN @ ELSE "assert",
                       ![t].minio_resp = IF SingleFile(lst) THEN @ ELSE Finally(@),
                       ![t].pc = IF SingleFile(lst) THEN "sc_link" ELSE "end"]
       \/ /\ tickets' = [tickets EXCEPT
                 ![t].uploads = @ + 1,
                 ![t].error = ScFinallyError(tickets[t].minio_resp, "upload_to_bucket"),
                 ![t].minio_resp = Finally(@),
                 ![t].pc = "end"]
          /\ UNCHANGED bucket_files
    /\ UNCHANGED <<analysis_buckets, node_public_key, analysis_bucket_files,
                   minio_objects>>
    /\ UNCHANGED <<object_id_to_hub_bucket_dict, reads, bucket_records, authVars, cryptoVars, serverVars, localVars>>

\* line 58: api.link_file_to_analysis(client_id, bucket_file.id, bucket_file.name, "TEMP")
sc_link(t) ==
    /\ tickets[t].pc = "sc_link"
    /\ LET bucket_file == tickets[t].bucket_file_lst[1]
       IN \/ /\ analysis_bucket_files' =
                    analysis_bucket_files (+) SetToBag({bucket_file})
             /\ tickets' = [tickets EXCEPT ![t].links = @ + 1,
                                           ![t].linked = bucket_file,
                                           ![t].pc = "sc_record"]
          \/ /\ tickets' = [tickets EXCEPT
                    ![t].links = @ + 1,
                    ![t].linked = bucket_file,
                    ![t].error = "link_file_to_analysis",
                    ![t].minio_resp = Finally(@),
                    ![t].pc = AfterFailedLink("scratch")]
             /\ UNCHANGED analysis_bucket_files
    /\ UNCHANGED <<analysis_buckets, node_public_key, bucket_files, minio_objects>>
    /\ UNCHANGED <<object_id_to_hub_bucket_dict, reads, bucket_records, authVars, cryptoVars, serverVars, localVars>>

\* line 59: object_id_to_hub_bucket_dict[object_id] = bucket_file.id
sc_record(t) ==
    /\ tickets[t].pc = "sc_record"
    /\ object_id_to_hub_bucket_dict' = DictSet(t, tickets[t].bucket_file_lst[1])
    /\ tickets' = [tickets EXCEPT ![t].pc = "sc_remove_object"]
    /\ UNCHANGED <<analysis_buckets, node_public_key, bucket_files,
                   analysis_bucket_files, minio_objects>>
    /\ UNCHANGED <<reads, bucket_records, authVars, cryptoVars, serverVars, localVars>>

\* line 60: minio.remove_object(bucket_name, object_name)
sc_remove_object(t) ==
    /\ tickets[t].pc = "sc_remove_object"
    /\ \/ /\ minio_objects' = minio_objects \ {t}
          /\ tickets' = [tickets EXCEPT ![t].minio_resp = Finally(@),
                                        ![t].pc = "end"]
       \/ /\ ScRaise(t, "remove_object")
          /\ UNCHANGED minio_objects
    /\ UNCHANGED <<analysis_buckets, node_public_key, bucket_files,
                   analysis_bucket_files>>
    /\ UNCHANGED <<object_id_to_hub_bucket_dict, reads, bucket_records, authVars, cryptoVars, serverVars, localVars>>

\* ---- PUT /intermediate: submit_intermediate_result_to_hub, intermediate.py lines 36-109

\* faulty variant: the HubAPIError reaches the server unhandled
HubErrorUnhandled == HTTP_500_INTERNAL_SERVER_ERROR

\* server.py lines 100-113: a HubAPIError raised in a request handler is
\* answered with 502
handle_hub_api_error == HTTP_502_BAD_GATEWAY

\* the handler answers with a status and ends
Answer(t, status, why) ==
    tickets' = [tickets EXCEPT ![t].response = status,
                               ![t].error = why,
                               ![t].pc = "end"]

\* faulty variant: the test for an empty list is missing
NoAnalysisBucketNever(lst) == FALSE

\* line 51: len(analysis_bucket_lst) == 0
NoAnalysisBucket(lst) == Len(lst) = 0

\* the request arrives, with or without a remote_node_id; lines 49-60:
\* find_analysis_buckets, 404 for an empty list, file.read()
submit_intermediate_result_to_hub(t) ==
    /\ tickets[t].route = "none"
    /\ \E remote_node_id \in BOOLEAN :
          LET analysis_bucket_lst == AnalysisBucketList("TEMP")
              arrived == [tickets[t] EXCEPT
                             !.route = "intermediate",
                             !.remote_node_id = remote_node_id,
                             !.result_file = SubmittedFile(t),
                             !.lookups = @ + 1,
                             !.no_bucket = "TEMP" \notin analysis_buckets]
          IN \/ IF NoAnalysisBucket(analysis_bucket_lst)
                THEN tickets' = [tickets EXCEPT ![t] =
                         [arrived EXCEPT !.response = HTTP_404_NOT_FOUND,
                                         !.error = "no_bucket",
                                         !.pc = "end"]]
                \* line 57: analysis_bucket = analysis_bucket_lst.pop(), an
                \* IndexError were the list empty
                ELSE IF Len(analysis_bucket_lst) = 0
                THEN tickets' = [tickets EXCEPT ![t] =
                         [arrived EXCEPT
                             !.response = HTTP_500_INTERNAL_SERVER_ERROR,
                             !.error = "pop",
                             !.pc = "end"]]
                ELSE tickets' = [tickets EXCEPT ![t] =
                         [arrived EXCEPT
                             !.analysis_bucket =
                                 analysis_bucket_lst[Len(analysis_bucket_lst)],
                             !.pc = IF remote_node_id
                                    THEN "im_get_node" ELSE "im_upload"]]
             \* HubAPIError, turned into a 502 by handle_hub_api_error (server.py)
             \/ tickets' = [tickets EXCEPT ![t] =
                    [arrived EXCEPT !.response = handle_hub_api_error,
                                    !.error = "find_analysis_buckets",
                                    !.pc = "end"]]
    /\ UNCHANGED <<analysis_buckets, node_public_key, bucket_files,
                   analysis_bucket_files, minio_objects>>
    /\ UNCHANGED <<object_id_to_hub_bucket_dict, reads, bucket_records, authVars, cryptoVars, serverVars, localVars>>

\* line 68: remote_node.public_key is not None
RecipientKeyPublished(public_key) == public_key

\* lines 63-78: get_node, 400 without a public key, encrypt_default
im_get_node(t) ==
    /\ tickets[t].pc = "im_get_node"
    /\ \/ /\ RecipientKeyPublished(node_public_key)
          /\ \E iv \in RandomIVs :
                tickets' = [tickets EXCEPT
                    ![t].result_file = encrypt_default(private_key_of(ThisNode),
                                           public_key_of(RemoteNode), @, iv),
                    ![t].pc = "im_upload"]
       \/ /\ ~RecipientKeyPublished(node_public_key)
          /\ Answer(t, HTTP_400_BAD_REQUEST, "no_public_key")
       \/ Answer(t, handle_hub_api_error, "get_node")
    /\ UNCHANGED <<analysis_buckets, node_public_key, bucket_files,
                   analysis_bucket_files, minio_objects>>
    /\ UNCHANGED <<object_id_to_hub_bucket_dict, reads, bucket_records, authVars, cryptoVars, serverVars, localVars>>

\* lines 80-96: upload_to_bucket, 502 unless one file record came back
im_upload(t) ==
    /\ tickets[t].pc = "im_upload"
    /\ \/ \E n \in 0..MaxRecords :
             LET lst == UploadedFiles(t, n)
             IN /\ bucket_files' = bucket_files \cup {lst[k] : k \in 1..n}
                /\ tickets' = [tickets EXCEPT
                       ![t].uploads = @ + 1,
                       ![t].uploaded_to = tickets[t].analysis_bucket.external_id,
                       ![t].content = tickets[t].result_file,
                       ![t].bucket_file_lst = lst,
                       ![t].answered = TRUE,
                       ![t].error = IF SingleFile(lst) THEN @ ELSE "file_count",
                       ![t].response = IF SingleFile(lst)
                                       THEN @ ELSE HTTP_502_BAD_GATEWAY,
                       ![t].pc = IF SingleFile(lst) THEN "im_link" ELSE "end"]
       \/ /\ tickets' = [tickets EXCEPT ![t].uploads = @ + 1,
                                        ![t].content = tickets[t].result_file,
                                        ![t].response = handle_hub_api_error,
                                        ![t].error = "upload_to_bucket",
                                        ![t].pc = "end"]
          /\ UNCHANGED bucket_files
    /\ UNCHANGED <<analysis_buckets, node_public_key, analysis_bucket_files,
                   minio_objects>>
    /\ UNCHANGED <<object_id_to_hub_bucket_dict, reads, bucket_records, authVars, cryptoVars, serverVars, localVars>>

\* lines 98-109: create_analysis_bucket_file, the answer with the object id
im_link(t) ==
    /\ tickets[t].pc = "im_link"
    /\ LET bucket_file == tickets[t].bucket_file_lst[Len(tickets[t].bucket_file_lst)]
       IN \/ /\ analysis_bucket_files' =
                    analysis_bucket_files (+) SetToBag({bucket_file})
             /\ tickets' = [tickets EXCEPT
                    ![t].links = @ + 1,
                    ![t].linked = bucket_file,
                    ![t].linked_to = tickets[t].analysis_bucket,
                    ![t].response = HTTP_200_OK,
                    ![t].pc = "end"]
          \/ /\ tickets' = [tickets EXCEPT
                    ![t].links = @ + 1,
                    ![t].linked = bucket_file,
                    ![t].response = handle_hub_api_error,
                    ![t].error = "create_analysis_bucket_file",
                    ![t].pc = AfterFailedLink("intermediate")]
             /\ UNCHANGED analysis_bucket_files
    /\ UNCHANGED <<analysis_buckets, node_public_key, bucket_files, minio_objects>>
    /\ UNCHANGED <<object_id_to_hub_bucket_dict, reads, bucket_records, authVars, cryptoVars, serverVars, localVars>>

\* the object ids a GET /intermediate/{object_id} names: the first file record
\* of each upload, which the hub does not know before the upload
ObjectIds == {FileId(t, 1) : t \in Tickets}

\* (observation) the object id is one a PUT /intermediate has answered with,
\* lines 101-109
ReturnedByPut(object_id) ==
    \E t \in Tickets : /\ tickets[t].route = "intermediate"
                       /\ tickets[t].response = HTTP_200_OK
                       /\ tickets[t].linked = object_id

\* storage_client.stream_bucket_file(object_id): the content the hub keeps
\* for a file is the content its upload carried
stream_bucket_file(object_id) == tickets[object_id[1]].content

\* faulty variant: the test for an unknown object is missing
ObjectUnknownNever(object_id) == FALSE

\* line 125: storage_client.get_bucket_file(object_id) is None
ObjectUnknown(object_id) == object_id \notin bucket_files

\* lines 120-135: GET /intermediate/{object_id}: 404 for an object the hub
\* does not know, the streamed content otherwise
retrieve_intermediate_result_from_hub(object_id) ==
    /\ reads' = IF ObjectUnknown(object_id)
                THEN [object_id |-> object_id,
                      response |-> HTTP_404_NOT_FOUND, body |-> <<>>,
                      returned |-> ReturnedByPut(object_id)]
                ELSE [object_id |-> object_id,
                      response |-> HTTP_200_OK,
                      body |-> stream_bucket_file(object_id),
                      returned |-> ReturnedByPut(object_id)]
    /\ UNCHANGED <<analysis_buckets, node_public_key, bucket_files,
                   analysis_bucket_files, minio_objects, tickets>>
    /\ UNCHANGED <<object_id_to_hub_bucket_dict, bucket_records, authVars, cryptoVars, serverVars, localVars>>

\* ---- GET /scratch/{object_id}: read_from_scratch, scratch.py lines 127-157

\* the object ids a GET /scratch/{object_id} names: the ids the PUT requests
\* draw and 0, an id no request draws
ScratchIds == 0..MaxTickets

\* lines 142-145: the object id is no key of the dict, or its value is None
NoHubFile(oid) ==
    \/ oid \notin DOMAIN object_id_to_hub_bucket_dict
    \/ object_id_to_hub_bucket_dict[oid] = NoFile

\* lines 139-157: 404 while the dict names no hub file for the object id, the
\* hub's file streamed otherwise; the caller's client id takes no part
read_from_scratch(oid) ==
    /\ reads' = IF NoHubFile(oid)
                THEN [object_id |-> <<oid>>,
                      response |-> HTTP_404_NOT_FOUND, body |-> <<>>,
                      returned |-> FALSE]
                ELSE LET bucket_file_id == object_id_to_hub_bucket_dict[oid]
                     IN [object_id |-> <<oid>>,
                         response |-> HTTP_200_OK,
                         body |-> stream_bucket_file(bucket_file_id),
                         returned |-> TRUE]
    /\ UNCHANGED <<analysis_buckets, node_public_key, bucket_files,
                   analysis_bucket_files, minio_objects, tickets>>
    /\ UNCHANGED <<object_id_to_hub_bucket_dict, bucket_records, authVars, cryptoVars, serverVars, localVars>>

ThreadStep(t) ==
    \/ get_auth_header(t)
    \/ acquire_token_fails(t)
    \/ acquire_token_parsed(t)
    \/ acquire_token_store_token(t)
    \/ acquire_token_store_expiry(t)
    \/ get_auth_header_return(t)
    \/ caller_continues(t)

\* several threads share the auth client
NextAuth == Tick \/ \E t \in Threads : ThreadStep(t)

SpecAuth == Init /\ [][NextAuth]_vars

\* one caller alone
NextAuthSeq == Tick \/ ThreadStep(1)

\* requests served one after the other, each with its hub calls
NextRequests == Tick \/ ThreadStep(1) \/ get_flame_hub_auth_flow(1)

SpecRequests == Init /\ [][NextRequests]_vars

SpecAuthSeq == Init /\ [][NextAuthSeq]_vars

\* PUT /final and its background relay
FinalStep(t) ==
    \/ submit_final_result_to_hub(t)
    \/ bg_get_object(t)
    \/ bg_get_analysis_bucket(t)
    \/ bg_upload(t)
    \/ bg_get_analysis_bucket_2(t)
    \/ bg_link(t)
    \/ bg_remove_object(t)

\* PUT /intermediate
IntermediateStep(t) ==
    \/ submit_intermediate_result_to_hub(t)
    \/ im_get_node(t)
    \/ im_upload(t)
    \/ im_link(t)

\* requests and background relays run next to each other and to the hub
NextRelay ==
    \/ hub_provisions_bucket
    \/ hub_node_publishes_key
    \/ \E t \in Tickets : FinalStep(t) \/ IntermediateStep(t)

SpecRelay == Init /\ [][NextRelay]_vars

\* every result is submitted with PUT /final
NextFinal ==
    \/ hub_provisions_bucket
    \/ \E t \in Tickets : FinalStep(t)

SpecFinal == Init /\ [][NextFinal]_vars

\* PUT /upload and its background relay
UploadStep(t) ==
    \/ upload_to_remote(t)
    \/ up_get_object(t)
    \/ up_upload(t)
    \/ up_link(t)
    \/ up_remove_object(t)

\* PUT /scratch and its background relay
ScratchStep(t) ==
    \/ upload_to_scratch(t)
    \/ sc_get_object(t)
    \/ sc_upload(t)
    \/ sc_link(t)
    \/ sc_record(t)
    \/ sc_remove_object(t)

\* the three endpoints that relay in the background
NextBackground ==
    \/ hub_provisions_bucket
    \/ \E t \in Tickets : FinalStep(t) \/ UploadStep(t) \/ ScratchStep(t)

SpecBackground == Init /\ [][NextBackground]_vars

\* the steps of the background task of ticket t (not the request itself)
BgStep(t) ==
    \/ bg_get_object(t)
    \/ bg_get_analysis_bucket(t)
    \/ bg_upload(t)
    \/ bg_get_analysis_bucket_2(t)
    \/ bg_link(t)
    \/ bg_remove_object(t)
    \/ up_get_object(t)
    \/ up_upload(t)
    \/ up_link(t)
    \/ up_remove_object(t)

\* the endpoints that hand the relay to a background task and answer 204
NextDeferred ==
    \/ hub_provisions_bucket
    \/ \E t \in Tickets : FinalStep(t) \/ UploadStep(t)

\* a background task that was added is run, and each of its calls returns or
\* raises
SpecDeferred ==
    Init /\ [][NextDeferred]_vars /\ \A t \in Tickets : WF_vars(BgStep(t))

\* every result is submitted with PUT /intermediate
NextIntermediate ==
    \/ hub_provisions_bucket
    \/ hub_node_publishes_key
    \/ \E t \in Tickets : IntermediateStep(t)

SpecIntermediate == Init /\ [][NextIntermediate]_vars

\* PUT /final and PUT /intermediate of an analysis whose bucket records the
\* hub makes, drops and makes anew while the relays run
NextRebucket ==
    \/ hub_provisions_bucket
    \/ hub_removes_bucket
    \/ \E t \in Tickets : FinalStep(t) \/ IntermediateStep(t)

SpecRebucket == Init /\ [][NextRebucket]_vars

\* PUT /intermediate and GET /intermediate/{object_id} of an analysis whose
\* TEMP bucket the hub has provisioned, the remote node's key being published
InitRetrieve ==
    /\ InitAuth
    /\ InitCrypto
    /\ InitServer
    /\ InitLocal
    /\ analysis_buckets = {"TEMP"}
    /\ bucket_records = [type \in BucketTypes |-> IF type = "TEMP" THEN 1 ELSE 0]
    /\ node_public_key = TRUE
    /\ bucket_files = {}
    /\ analysis_bucket_files = EmptyBag
    /\ minio_objects = {}
    /\ object_id_to_hub_bucket_dict = <<>>
    /\ tickets = [t \in Tickets |-> NewTicket]
    /\ reads = NoRead

NextRetrieve ==
    \/ \E t \in Tickets : IntermediateStep(t)
    \/ \E object_id \in ObjectIds :
          retrieve_intermediate_result_from_hub(object_id)

SpecRetrieve == InitRetrieve /\ [][NextRetrieve]_vars

\* PUT /scratch and GET /scratch/{object_id} of analyses whose TEMP bucket
\* the hub has provisioned; the relay runs as a background task beside the
\* requests
NextScratch ==
    \/ \E t \in Tickets : ScratchStep(t)
    \/ \E oid \in ScratchIds : read_from_scratch(oid)

SpecScratch == InitRetrieve /\ [][NextScratch]_vars

\* the requests the server answers, whatever the process is configured with
InitConfigured ==
    /\ InitAuth
    /\ InitRelay
    /\ InitCrypto
    /\ InitLocal
    /\ settings \in [skip_jwt_validation : BOOLEAN]
    /\ access_log = {}

NextServer ==
    \E endpoint \in Endpoints, credentials \in Credentials,
       jwks_reachable \in BOOLEAN :
          serve(endpoint, credentials, jwks_reachable)

SpecServer == InitConfigured /\ [][NextServer]_vars

\* PUT /local
LocalStep(r) ==
    \/ submit_intermediate_result_to_local(r)
    \/ lc_get_analysis(r)
    \/ lc_tag_get(r)
    \/ lc_tag_create(r)
    \/ lc_rows(r)

\* PUT /local requests running next to each other
NextLocal == \E r \in PutIds : LocalStep(r)

SpecLocal == Init /\ [][NextLocal]_vars

\* no PUT /local is being handled
LocalAtRest == \A r \in PutIds : puts[r].pc \in {"new", "end"}

\* PUT /local requests one after the other, and then one GET request that
\* reads what they left
NextLocalRead ==
    \/ /\ gets = NoGet
       /\ \E r \in PutIds :
             /\ \A other \in PutIds \ {r} : puts[other].pc \in {"new", "end"}
             /\ LocalStep(r)
    \/ /\ gets = NoGet
       /\ LocalAtRest
       /\ \/ \E client_id \in LocalClients : get_project_tags(client_id)
          \/ \E client_id \in LocalClients, tag_name \in LocalTags \ {NoTag} :
                get_results_by_project_tag(client_id, tag_name)
          \/ \E client_id \in LocalClients, object_id \in PutIds :
                retrieve_intermediate_result_from_local(client_id, object_id)

SpecLocalRead == Init /\ [][NextLocalRead]_vars

\* is_valid_tag used on its own
NextTags == \E tag \in TagInputs : check_tag(tag)

SpecTags == Init /\ [][NextTags]_vars

\* exchange_ecdh_shared_secret used on its own
NextExchange ==
    \E a, b \in Parties, bit_size \in BitSizes, raw_bytes \in CurveSecretBytes :
        exchange(a, b, bit_size, raw_bytes)

SpecExchange == Init /\ [][NextExchange]_vars

\* project/crypto.py used on its own
NextCrypto ==
    \/ \E a, b \in Parties, m \in Messages : seal(a, b, m)
    \/ \E c, d \in Parties : open_default(c, d)
    \/ open_aesgcm

SpecCrypto == Init /\ [][NextCrypto]_vars

(***************************************************************************)
(* Credential cache: properties                                            *)
(***************************************************************************)
Cache == <<current_access_token, current_access_token_expires_at>>

\* the threads whose token request is with the issuer
InFlight == {t \in Threads : pc[t] = "awaiting"}

\* C1: at most one token acquisition is in flight at any time, whatever the
\* number of threads that found the token missing or stale.
C1_SingleFlight == Cardinality(InFlight) <= 1

\* C2: a get_auth_header() call whose token request failed (issuer unreachable,
\* non-success status, unparsable body) has raised, and the cached token and
\* its stored expiry are what they were when the call started.
C2_FailureLeavesCache ==
    \A t \in Threads :
        pc[t] = "raised" =>
            /\ call[t].error \in IssuerFailures
            /\ header[t] = NoHeader
            /\ Cache = call[t].before

\* a call failed while a token was cached
C2_Witness ==
    \E t \in Threads :
        /\ pc[t] = "raised"
        /\ call[t].error = "bad_body"
        /\ current_access_token # None

\* C3 as stated: the second of two back-to-back calls, made while the cached
\* token has not expired (now < stored expiry), returns the header of the
\* first and sends no token request.
C3_NoReissueUnexpired ==
    \A t \in Threads :
        (pc[t] = "returned" /\ call[t].repeat # "first" /\ call[t].unexpired) =>
            (call[t].repeat = "same" /\ call[t].requests = 0)

\* C3 (amended): the second of two back-to-back calls of a caller that has the
\* client to itself, made while the stored expiry is at least now + leeway,
\* returns the header of the first and sends no token request.
C3_NoReissueFresh ==
    \A t \in Threads :
        (pc[t] = "returned" /\ call[t].repeat # "first" /\ call[t].fresh) =>
            (call[t].repeat = "same" /\ call[t].requests = 0)

\* a second call served from the cache, the expiry exactly at now + leeway
C3_Witness ==
    \E t \in Threads :
        /\ pc[t] = "returned"
        /\ call[t].repeat = "same"
        /\ call[t].fresh
        /\ call[t].requests = 0
        /\ current_access_token_expires_at = now + token_expiration_leeway_seconds

\* C4: a call by a single caller made with no token cached or with the stored
\* expiry below now + leeway sends exactly one token request, and when it
\* returns, returns the header of the token that request issued; a call made
\* with the stored expiry at least now + leeway sends none.
C4_OneRefreshWhenStale ==
    \A t \in Threads :
        pc[t] \in {"returned", "raised"} =>
            /\ call[t].requests = (IF call[t].fresh THEN 0 ELSE 1)
            /\ pc[t] = "raised" => ~call[t].fresh
            /\ (pc[t] = "returned" /\ ~call[t].fresh) =>
                   (at[t] # None /\ header[t] = format_auth_header(at[t]))

\* a cached token was renewed inside the leeway window, before it expired
C4_Witness ==
    \E t \in Threads :
        /\ pc[t] = "returned"
        /\ call[t].unexpired
        /\ ~call[t].fresh
        /\ call[t].requests = 1
        /\ call[t].repeat = "differs"

(***************************************************************************)
(* Relay: properties                                                       *)
(***************************************************************************)
\* the local object of ticket t was written by its request
Stored(t) ==
    /\ tickets[t].route \in {"final", "upload", "scratch"}
    /\ tickets[t].error # "put_object"

\* the link call of ticket t was made and the hub recorded the link
LinkSucceeded(t) ==
    /\ tickets[t].links >= 1
    /\ tickets[t].linked # NoFile
    /\ BagIn(tickets[t].linked, analysis_bucket_files)

\* the upload call of ticket t returned exactly one file record
UploadSucceeded(t) ==
    /\ tickets[t].uploads >= 1
    /\ tickets[t].answered
    /\ Len(tickets[t].bucket_file_lst) = 1

\* C5: the local object of a relay is removed only after its link call
\* succeeded: while the upload or the link has failed or is not done, the
\* object is in the local store.
C5_LocalCopyUntilLinked ==
    \A t \in Tickets :
        (Stored(t) /\ ~(UploadSucceeded(t) /\ LinkSucceeded(t))) =>
            t \in minio_objects

\* the relay of a PUT /final linked and removed its object, the relay of a
\* PUT /scratch failed at the link and still has it
C5_Witness ==
    \E t, u \in Tickets :
        /\ tickets[t].route = "final" /\ Stored(t)
        /\ LinkSucceeded(t) /\ t \notin minio_objects
        /\ tickets[t].pc = "end"
        /\ tickets[u].route = "scratch" /\ Stored(u)
        /\ tickets[u].pc = "end"
        /\ tickets[u].error = "link_file_to_analysis"
        /\ u \in minio_objects

\* C6: a ticket's link call is made at most once, only after its upload
\* returned one file record, and names that record; no file is linked twice.
C6_LinkOnceAfterUpload ==
    /\ \A t \in Tickets :
          /\ tickets[t].links <= 1
          /\ tickets[t].links = 1 =>
                /\ UploadSucceeded(t)
                /\ tickets[t].linked = tickets[t].bucket_file_lst[1]
                /\ tickets[t].linked \in bucket_files
          /\ tickets[t].links = 0 => tickets[t].linked = NoFile
    /\ \A f \in BagToSet(analysis_bucket_files) :
          /\ CopiesIn(f, analysis_bucket_files) = 1
          /\ \E t \in Tickets : tickets[t].linked = f

\* a background relay and a request of the synchronous path both linked
C6_Witness ==
    \E t, u \in Tickets :
        /\ tickets[t].route = "final" /\ LinkSucceeded(t)
        /\ tickets[u].route = "intermediate" /\ LinkSucceeded(u)
        /\ tickets[u].response = HTTP_200_OK

\* C7: when the upload answers with no file record or with more than one, no
\* link call is made: the synchronous path answers 502, the background relay
\* stops and its local object stays.
C7_UnexpectedUploadResult ==
    \A t \in Tickets :
        (tickets[t].answered /\ Len(tickets[t].bucket_file_lst) # 1) =>
            /\ tickets[t].links = 0
            /\ tickets[t].route = "intermediate" =>
                  /\ tickets[t].pc = "end"
                  /\ tickets[t].response = HTTP_502_BAD_GATEWAY
            /\ tickets[t].route \in {"final", "upload", "scratch"} =>
                  /\ tickets[t].pc = "end"
                  /\ tickets[t].error = "assert"
                  /\ t \in minio_objects

\* the background relay got two records, the synchronous path none
C7_Witness ==
    \E t, u \in Tickets :
        /\ tickets[t].route = "final" /\ tickets[t].pc = "end"
        /\ tickets[t].answered /\ Len(tickets[t].bucket_file_lst) = 2
        /\ tickets[u].route = "intermediate" /\ tickets[u].pc = "end"
        /\ tickets[u].answered /\ Len(tickets[u].bucket_file_lst) = 0

\* the hub answered every lookup the request of ticket t made
LookupsAnswered(t) == tickets[t].error \notin {"find_analysis_buckets", "get_node"}

\* C8: a PUT /intermediate that designates a recipient node without a
\* published public key is answered 400 and makes no upload and no link call.
C8_MissingRecipientKey ==
    \A t \in Tickets :
        ( /\ tickets[t].route = "intermediate"
          /\ tickets[t].pc = "end"
          /\ tickets[t].remote_node_id
          /\ ~node_public_key
          /\ LookupsAnswered(t) ) =>
            /\ tickets[t].response = HTTP_400_BAD_REQUEST
            /\ tickets[t].uploads = 0
            /\ tickets[t].links = 0

\* C9: a PUT /intermediate made while the analysis has no TEMP bucket is
\* answered 404 and makes no upload and no link call; one made once the bucket
\* is there is not, and is answered 200 when its later steps succeed.
C9_BucketNotFound ==
    \A t \in Tickets :
        ( /\ tickets[t].route = "intermediate"
          /\ tickets[t].error # "find_analysis_buckets" ) =>
            /\ tickets[t].no_bucket =>
                  /\ tickets[t].pc = "end"
                  /\ tickets[t].response = HTTP_404_NOT_FOUND
                  /\ tickets[t].uploads = 0
                  /\ tickets[t].links = 0
            /\ (~tickets[t].no_bucket /\ tickets[t].pc = "end") =>
                  /\ tickets[t].response # HTTP_404_NOT_FOUND
                  /\ tickets[t].error = "none" =>
                        (tickets[t].response = HTTP_200_OK /\ LinkSucceeded(t))
                  /\ tickets[t].error \in
                        {"none", "get_node", "no_public_key", "upload_to_bucket",
                         "file_count", "create_analysis_bucket_file"}

\* a submit was answered 404, the bucket was provisioned, the same submit
\* made again was answered 200
C9_Witness ==
    \E t, u \in Tickets :
        /\ tickets[t].route = "intermediate" /\ tickets[t].no_bucket
        /\ tickets[t].response = HTTP_404_NOT_FOUND
        /\ tickets[u].route = "intermediate" /\ ~tickets[u].no_bucket
        /\ tickets[u].remote_node_id = tickets[t].remote_node_id
        /\ tickets[u].response = HTTP_200_OK
        /\ LinkSucceeded(u)

\* C10: a PUT /final for an analysis that has no RESULT bucket (it has none
\* now, so it had none when the request came) is answered 404, not 204.
C10_FinalBucketNotFound ==
    \A t \in Tickets :
        (tickets[t].route = "final" /\ Stored(t) /\ "RESULT" \notin analysis_buckets) =>
            tickets[t].response = HTTP_404_NOT_FOUND

\* C11: in the background relay of PUT /final (and PUT /upload) a failed upload
\* or link is tried again: a relay that ended on a failed upload made more
\* than one upload call, one that ended on a failed link more than one link
\* call.
C11_RetriedBeforeFailed ==
    \A t \in Tickets :
        ( /\ tickets[t].route \in {"final", "upload"}
          /\ tickets[t].pc = "end" ) =>
            /\ tickets[t].error = "upload_to_bucket" => tickets[t].uploads >= 2
            /\ tickets[t].error = "link_bucket_file_to_analysis" =>
                  tickets[t].links >= 2

\* the hub calls of PUT /intermediate whose failure is a HubAPIError
HubFailures ==
    {"find_analysis_buckets", "get_node", "upload_to_bucket",
     "create_analysis_bucket_file"}

\* C12: a PUT /intermediate makes the bucket lookup, the upload and the link
\* call at most once each; when one of its hub calls fails the request is
\* answered 502 and ends there, no later step being made.
C12_SynchronousNoRetry ==
    \A t \in Tickets :
        tickets[t].route = "intermediate" =>
            /\ tickets[t].lookups <= 1
            /\ tickets[t].uploads <= 1
            /\ tickets[t].links <= 1
            /\ tickets[t].error \in HubFailures =>
                  /\ tickets[t].response = HTTP_502_BAD_GATEWAY
                  /\ tickets[t].pc = "end"
            /\ tickets[t].error = "find_analysis_buckets" =>
                  (tickets[t].uploads = 0 /\ tickets[t].links = 0)
            /\ tickets[t].error = "get_node" =>
                  (tickets[t].uploads = 0 /\ tickets[t].links = 0)
            /\ tickets[t].error = "upload_to_bucket" => tickets[t].links = 0
            /\ tickets[t].error = "create_analysis_bucket_file" =>
                  ~LinkSucceeded(t)

\* one request ended with 502 on a failed upload and made no link call,
\* another ended with 502 on a failed link
C12_Witness ==
    \E t, u \in Tickets :
        /\ tickets[t].route = "intermediate" /\ tickets[t].pc = "end"
        /\ tickets[t].error = "upload_to_bucket"
        /\ tickets[t].uploads = 1 /\ tickets[t].links = 0
        /\ tickets[t].response = HTTP_502_BAD_GATEWAY
        /\ tickets[u].route = "intermediate" /\ tickets[u].pc = "end"
        /\ tickets[u].error = "create_analysis_bucket_file"
        /\ tickets[u].links = 1
        /\ tickets[u].response = HTTP_502_BAD_GATEWAY

\* C13: for a PUT /final and for a PUT /intermediate the submitted bytes are in
\* the local object store before any hub call of the submit is made and
\* before success is answered.
C13_StoredLocallyFirst ==
    \A t \in Tickets :
        ( /\ tickets[t].route \in {"final", "intermediate"}
          /\ \/ tickets[t].lookups + tickets[t].uploads + tickets[t].links > 0
             \/ tickets[t].response \in {HTTP_200_OK, HTTP_204_NO_CONTENT} ) =>
            Stored(t)

\* the background relay of ticket t was added and has not ended
Scheduled(t) ==
    /\ tickets[t].route \in {"final", "upload"}
    /\ tickets[t].pc \notin {"new", "end"}

\* the files of ticket t that are linked to the analysis
LinkedFilesOf(t) == {f \in BagToSet(analysis_bucket_files) : f[1] = t}

\* how the background relay of ticket t may have ended: in a failure, or with
\* its one uploaded file linked once and the local object removed
RelayOutcome(t) ==
    \/ tickets[t].error # "none"
    \/ /\ UploadSucceeded(t) /\ LinkSucceeded(t)
       /\ LinkedFilesOf(t) = {FileId(t, 1)}
       /\ CopiesIn(FileId(t, 1), analysis_bucket_files) = 1
       /\ t \notin minio_objects

\* C14: every background relay added by PUT /final or PUT /upload ends, and it
\* ends either in a failure or linked with the local object removed; when no
\* step failed the analysis has exactly one more linked file, the one uploaded.
C14_RelayTerminates ==
    \A t \in Tickets :
        /\ [](( /\ tickets[t].route \in {"final", "upload"}
                /\ tickets[t].pc = "end" ) => RelayOutcome(t))
        /\ Scheduled(t) ~> (tickets[t].pc = "end" /\ RelayOutcome(t))

\* the relay of a PUT /final ended linked with the object removed, the relay
\* of a PUT /upload ended in a failure
C14_Witness ==
    \E t, u \in Tickets :
        /\ tickets[t].route = "final" /\ tickets[t].pc = "end"
        /\ tickets[t].error = "none"
        /\ LinkSucceeded(t) /\ t \notin minio_objects
        /\ tickets[u].route = "upload" /\ tickets[u].pc = "end"
        /\ tickets[u].error \notin {"none", "put_object"}

\* the upload of ticket t returned its one file record and the link call failed
LinkFailedAfterUpload(t) ==
    /\ UploadSucceeded(t)
    /\ tickets[t].error \in
          {"link_bucket_file_to_analysis", "create_analysis_bucket_file"}

\* C15: when the upload succeeded and the link failed the relay stops and
\* nothing is put right: the uploaded file stays in the hub bucket, unlinked,
\* no second link call is made, and the local object of a background relay is
\* not removed.
C15_NoReconciliation ==
    \A t \in Tickets :
        LinkFailedAfterUpload(t) =>
            /\ tickets[t].pc = "end"
            /\ tickets[t].uploads = 1
            /\ tickets[t].links = 1
            /\ tickets[t].bucket_file_lst[1] \in bucket_files
            /\ ~BagIn(tickets[t].bucket_file_lst[1], analysis_bucket_files)
            /\ tickets[t].route = "final" => t \in minio_objects
            /\ tickets[t].route = "intermediate" =>
                  tickets[t].response = HTTP_502_BAD_GATEWAY

\* the link failed after the upload in a background relay and in a
\* PUT /intermediate
C15_Witness ==
    \E t, u \in Tickets :
        /\ tickets[t].route = "final" /\ LinkFailedAfterUpload(t)
        /\ tickets[t].pc = "end" /\ t \in minio_objects
        /\ tickets[u].route = "intermediate" /\ LinkFailedAfterUpload(u)
        /\ tickets[u].pc = "end"
        /\ tickets[u].bucket_file_lst[1] \in bucket_files

\* an opening made by the recipient with decrypt_default on the untouched
\* sealed payload
OpenedByRecipient ==
    /\ opening.by = "decrypt_default"
    /\ opening.private = sealing.recipient
    /\ opening.public = sealing.sender
    /\ opening.data = sealing.sealed

\* C18: whatever the plaintext and the two key pairs, decrypt_default with the
\* recipient's private key and the sender's public key gives back what
\* encrypt_default sealed with the sender's private key and the recipient's
\* public key; the sealed payload starts with the 12-byte IV, decrypt_default
\* splits off exactly these 12 bytes, and the sealed payload never equals the
\* plaintext.
C18_SealOpenRoundTrip ==
    sealing # NoSealing =>
        /\ OpenedByRecipient => opening.result = sealing.data
        /\ Len(sealing.iv) = 12
        /\ SubSeq(sealing.sealed, 1, 12) = sealing.iv
        /\ split_iv_from_data(sealing.sealed)[1] = sealing.iv
        /\ sealing.sealed =
               sealing.iv \o split_iv_from_data(sealing.sealed)[2]
        /\ sealing.sealed # sealing.data

\* C18 witness: a recipient other than the sender has opened a sealed
\* two-byte plaintext and holds the plaintext
C18_Witness ==
    /\ sealing # NoSealing
    /\ sealing.sender # sealing.recipient
    /\ Len(sealing.data) = MaxLen
    /\ OpenedByRecipient
    /\ opening.result = sealing.data

\* C19: an opening with a private key other than the recipient's, with a
\* public key other than the sender's, with another IV or other associated
\* data, or of a payload in which a byte was changed ends in InvalidTag and
\* never gives the plaintext.
C19_WrongOpeningFails ==
    (/\ opening # NoOpening
     /\ \/ opening.private # sealing.recipient
        \/ opening.public # sealing.sender
        \/ opening.by = "decrypt_aesgcm" /\ opening.iv # sealing.iv
        \/ opening.by = "decrypt_aesgcm" /\ opening.ad # <<>>
        \/ opening.by = "decrypt_default" /\ opening.data # sealing.sealed)
    => opening.result = InvalidTag /\ opening.result # sealing.data

\* a PUT /intermediate of ticket t that was answered with 200
PutSucceeded(t) ==
    /\ tickets[t].route = "intermediate"
    /\ tickets[t].response = HTTP_200_OK

\* the last GET came after ticket t's PUT was answered and named the object
\* the answer points at
ReadOfReturnedUrl(t) ==
    /\ PutSucceeded(t)
    /\ reads.object_id = tickets[t].linked
    /\ reads.returned

\* C16: without a remote_node_id nothing is sealed: the upload carries the
\* submitted bytes, and after a successful PUT /intermediate a GET on the
\* returned URL is answered with exactly the submitted bytes; a GET for an
\* object id the hub does not know is answered with 404.
C16_PlainRoundTrip ==
    /\ [](\A t \in Tickets :
            (tickets[t].route = "intermediate" /\ ~tickets[t].remote_node_id) =>
               /\ tickets[t].result_file = SubmittedFile(t)
               /\ tickets[t].uploads > 0 => tickets[t].content = SubmittedFile(t)
               /\ ReadOfReturnedUrl(t) =>
                     /\ reads.response = HTTP_200_OK
                     /\ reads.body = SubmittedFile(t))
    /\ [][\A object_id \in ObjectIds :
            (retrieve_intermediate_result_from_hub(object_id)
             /\ object_id \notin bucket_files)
            => reads'.response = HTTP_404_NOT_FOUND /\ reads'.body = <<>>]_vars

\* C16 witness: both tickets were relayed without a recipient and answered
\* with 200, and the GET on the second one's URL gave its bytes back
C16_Witness ==
    /\ \A t \in Tickets : PutSucceeded(t) /\ ~tickets[t].remote_node_id
    /\ ReadOfReturnedUrl(2)
    /\ reads.response = HTTP_200_OK
    /\ reads.body = SubmittedFile(2)
    /\ SubmittedFile(2) # SubmittedFile(1)

\* the payload encrypt_default makes of ticket t's file for the remote node,
\* with the IV the payload starts with
SealedFor(t, payload) ==
    /\ split_iv_from_data(payload)[1] \in RandomIVs
    /\ payload = encrypt_default(private_key_of(ThisNode),
                                 public_key_of(RemoteNode), SubmittedFile(t),
                                 split_iv_from_data(payload)[1])

\* C17: with a remote_node_id whose node published a key, the upload carries
\* the sealed payload (IV, ciphertext, tag) made with this node's private key
\* and the remote node's public key and never the plaintext; a GET on the
\* returned URL gives bytes that differ from the plaintext and that the remote
\* node's private key, with this node's public key, opens to the plaintext.
C17_SealedRoundTrip ==
    \A t \in Tickets :
        (tickets[t].route = "intermediate" /\ tickets[t].remote_node_id) =>
           /\ tickets[t].uploads > 0 =>
                 /\ SealedFor(t, tickets[t].content)
                 /\ tickets[t].content # SubmittedFile(t)
           /\ ReadOfReturnedUrl(t) =>
                 /\ reads.response = HTTP_200_OK
                 /\ reads.body # SubmittedFile(t)
                 /\ decrypt_default(private_key_of(RemoteNode),
                                    public_key_of(ThisNode), reads.body)
                       = SubmittedFile(t)

\* C17 witness: a PUT /intermediate with a recipient was answered with 200
\* and the GET on its URL gave the sealed payload
C17_Witness ==
    \E t \in Tickets :
        /\ tickets[t].remote_node_id
        /\ ReadOfReturnedUrl(t)
        /\ node_public_key
        /\ SealedFor(t, reads.body)

\* C20: whatever the endpoint, a request without a bearer token that resolves
\* to a caller identity is answered with the authentication error and its
\* handler does not run.
C20_EveryEndpointAuthenticated ==
    \A request \in access_log :
        request.credentials # "valid" =>
            /\ ~request.handler_ran
            /\ request.response = HTTP_403_FORBIDDEN

\* C29: whenever a token is cached, the stored expiry is the time at which
\* this token was stored plus its expires_in; as the time of storing lies
\* between 0 and now, the expiry less the token's expires_in is such a time.
C29_TokenAndExpiryTogether ==
    current_access_token # None =>
        \E stored \in 0..now :
            current_access_token_expires_at
                = stored + current_access_token.expires_in

WellFormedTag(t) ==
    /\ Len(t) >= 1
    /\ Len(t) <= 32
    /\ \A i \in 1..Len(t) : t[i] \in LowercaseLetters \cup Digits \cup {"-"}
    /\ t[1] \in LowercaseLetters \cup Digits
    /\ t[Len(t)] \in LowercaseLetters \cup Digits

\* C24: is_valid_tag(t) is true exactly when t has between 1 and 32
\* characters, each of them a lowercase letter, a digit or a hyphen, and the
\* first and the last of them a lowercase letter or a digit.
C24_ValidTagShape ==
    tag_check.called => (tag_check.valid <=> WellFormedTag(tag_check.tag))

\* C24 witness: a tag of 32 characters with hyphens inside was found valid
C24_Witness ==
    /\ tag_check.called
    /\ tag_check.valid
    /\ Len(tag_check.tag) = 32
    /\ tag_check.tag[2] = "-"

\* C22: the table Tag never holds two rows with the same tag name and the
\* same project id, whatever PUT /local requests run next to each other.
C22_TagUniquePerProject ==
    \A row, other \in tag_rows :
        (row.tag_name = other.tag_name /\ row.project_id = other.project_id)
            => row = other

\* C22 witness: two requests of one project name the same tag, both selects
\* found no row, the first request has inserted the row and the second is
\* about to insert
C22_Witness ==
    /\ puts[1].pc = "rows"
    /\ puts[2].pc = "tag_create"
    /\ puts[1].tag = puts[2].tag
    /\ puts[1].project_id = puts[2].project_id
    /\ puts[1].client_id # puts[2].client_id
    /\ Cardinality(tag_rows) = 1

\* request r left nothing behind: no object, no Result row, no TaggedResult
\* row, and no Tag row of its tag in no project
NothingStored(r) ==
    /\ \A o \in local_objects : o.object_id # r
    /\ \A result \in result_rows : result.object_id # r
    /\ \A link \in tagged_result_rows, result \in result_rows :
          link.result = result.id => result.object_id # r

\* the r-th PUT /local came with a tag
HasTag(r) == puts[r].pc # "new" /\ puts[r].tag # NoTag

C26_NoPartialStateOn404 ==
    \A r \in PutIds :
        (HasTag(r) /\ puts[r].response = HTTP_404_NOT_FOUND) =>
            /\ NothingStored(r)
            /\ \A row \in tag_rows : row.project_id # puts[r].project_id

\* C23: after tagged PUT /local requests answered with 200, GET /local/tags
\* of an analysis of project P lists every tag they named within P, and
\* GET /local/tags/{tag} lists exactly the results they submitted with this tag
\* within P, each with its filename (data.bin for an upload that named none)
\* and the URL its PUT answered with, and none of another project.
C23_TaggedListing ==
    LET project == get_analysis(gets.client_id)
        tagged == {r \in PutIds : /\ HasTag(r)
                                  /\ puts[r].response = HTTP_200_OK
                                  /\ puts[r].project_id = project}
    IN /\ (gets.operation = "get_project_tags" /\ gets.response = HTTP_200_OK)
          => {entry.name : entry \in gets.tags} = {puts[r].tag : r \in tagged}
       /\ (gets.operation = "get_results_by_project_tag"
           /\ gets.response = HTTP_200_OK)
          => gets.results =
                {[filename |-> IF puts[r].filename = ""
                               THEN "data.bin" ELSE puts[r].filename,
                  url |-> puts[r].url] :
                    r \in {t \in tagged : puts[t].tag = gets.tag_name}}

\* C23 witness: analyses of two projects have each submitted a result with
\* the same tag, and the listing of the tag for a second analysis of the first
\* project shows the one result of that project
C23_Witness ==
    /\ gets.operation = "get_results_by_project_tag"
    /\ gets.client_id = "a2"
    /\ puts[1].client_id = "a1" /\ puts[1].response = HTTP_200_OK
    /\ puts[2].client_id = "a3" /\ puts[2].response = HTTP_200_OK
    /\ puts[1].tag = gets.tag_name
    /\ puts[2].tag = gets.tag_name
    /\ gets.results = {[filename |-> "model.bin", url |-> puts[1].url]}

\* the r-th PUT /local has put its object into local storage
PutStored(r) ==
    /\ puts[r].pc # "new"
    /\ puts[r].response # HTTP_400_BAD_REQUEST

\* C27: GET /local/{id} of client C, the object store answering, returns the
\* bytes C stored under this id with PUT /local, and 404 for an id under which
\* C stored nothing, be it an id another client stored.
C27_OwnObjectsOnly ==
    (/\ gets.operation = "retrieve_intermediate_result_from_local"
     /\ gets.response # HTTP_502_BAD_GATEWAY)
    => IF /\ PutStored(gets.object_id)
          /\ puts[gets.object_id].client_id = gets.client_id
       THEN /\ gets.response = HTTP_200_OK
            /\ gets.body = LocalFile(gets.object_id)
       ELSE /\ gets.response = HTTP_404_NOT_FOUND
            /\ gets.body = <<>>

\* C27 witness: a client asked for an object another client had stored and
\* got 404
C27_Witness ==
    /\ gets.operation = "retrieve_intermediate_result_from_local"
    /\ gets.response = HTTP_404_NOT_FOUND
    /\ PutStored(gets.object_id)
    /\ puts[gets.object_id].client_id # gets.client_id
    /\ \E r \in PutIds : PutStored(r) /\ puts[r].client_id = gets.client_id

\* the request went to a route that depends on get_client_id and carried
\* a token that is expired, not signed by a key of the JWKS, or without the
\* client id claim
InvalidTokenRequest(request) ==
    /\ request.depends_on_client_id
    /\ request.credentials \in {"expired", "unsigned", "no_client_id"}

\* the request was answered as the claim C21 words it
RefusedAsInvalid(request) ==
    /\ ~request.handler_ran
    /\ IF request.jwks_reachable
       THEN /\ request.response = HTTP_403_FORBIDDEN
            /\ request.detail = "JWT is malformed"
       ELSE /\ request.response = HTTP_502_BAD_GATEWAY
            /\ request.detail = "Auth provider is unavailable"

UploadedAndLinked(oid) ==
    /\ oid \in Tickets
    /\ tickets[oid].route = "scratch"
    /\ FileId(oid, 1) \in bucket_files
    /\ BagIn(FileId(oid, 1), analysis_bucket_files)

\* the relay of the object id has come through upload and link and noted the
\* hub's file
RelayThrough(oid) ==
    /\ UploadedAndLinked(oid)
    /\ tickets[oid].pc \in {"sc_remove_object", "end"}

RelayEnded(t) ==
    /\ tickets[t].route \in {"final", "upload", "scratch"}
    /\ tickets[t].pc = "end"
    /\ tickets[t].error # "put_object"

\* C35: when a background relay is over, whatever step ended it, the response
\* get_object returned is closed and released, and when get_object itself
\* failed there is no response, nothing is closed, and the error of get_object
\* is the error the relay ends with.
C35_ResponseClosedOnEveryExit ==
    \A t \in Tickets :
        RelayEnded(t) =>
            IF tickets[t].minio_resp = "None"
            THEN tickets[t].error = "get_object"
            ELSE tickets[t].minio_resp = "closed"

\* C33: a PUT /intermediate that designates a recipient node without a
\* published public key, the hub answering, ends with 400 and has made no
\* bucket lookup and no upload or link call, whether the analysis has a TEMP
\* bucket or not.
C33_KeyCheckBeforeBucket ==
    \A t \in Tickets :
        (/\ tickets[t].route = "intermediate"
         /\ tickets[t].pc = "end"
         /\ tickets[t].remote_node_id
         /\ ~node_public_key
         /\ tickets[t].response # handle_hub_api_error)
        => /\ tickets[t].response = HTTP_400_BAD_REQUEST
           /\ tickets[t].lookups = 0
           /\ tickets[t].uploads = 0
           /\ tickets[t].links = 0

\* C34: the bucket record a file was linked to names, as its external_id, the
\* storage bucket the file was uploaded to, whatever the hub did to the bucket
\* records of the analysis between the relay's lookups.
C34_LinkedWhereUploaded ==
    \A t \in Tickets :
        tickets[t].linked_to # NoBucket =>
            tickets[t].linked_to.external_id = tickets[t].uploaded_to

\* the relay of ticket t went through every step without an error
RelayDone(t) == tickets[t].pc = "end" /\ tickets[t].error = "none"

\* C31: relays of PUT /final that run side by side for one analysis do not
\* touch each other's data at any point of any interleaving: the local object
\* of a relay stays until this relay removes it, a relay links no file but the
\* one its own upload created, and a relay that went through all steps has its
\* file linked once and its own local object removed.
C31_RelaysDoNotInterfere ==
    \A t \in Tickets :
        (tickets[t].route = "final" /\ tickets[t].error # "put_object") =>
            /\ tickets[t].linked \in {NoFile, FileId(t, 1)}
            /\ \A k \in 1..Len(tickets[t].bucket_file_lst) :
                  tickets[t].bucket_file_lst[k] = FileId(t, k)
            /\ ~RelayDone(t) => t \in minio_objects
            /\ RelayDone(t) =>
                  /\ t \notin minio_objects
                  /\ CopiesIn(FileId(t, 1), analysis_bucket_files) = 1

\* C31 witness: the second relay went through all steps while the first,
\* its file linked, still held its local object
C31_Witness ==
    /\ tickets[1].route = "final"
    /\ tickets[2].route = "final"
    /\ RelayDone(2)
    /\ tickets[1].pc = "bg_remove_object"
    /\ minio_objects = {1}
    /\ CopiesIn(FileId(1, 1), analysis_bucket_files) = 1
    /\ CopiesIn(FileId(2, 1), analysis_bucket_files) = 1

\* C32: the token the service holds for the hub stays for the whole process:
\* as long as the cached token is fresh (not within the leeway of its expiry)
\* no step, the serving of a later request included, drops or replaces it, so
\* the hub calls of later requests cause no token request.
C32_FreshTokenKept ==
    [][(/\ current_access_token # None
        /\ current_access_token_expires_at
               >= now + token_expiration_leeway_seconds)
       => /\ current_access_token' = current_access_token
          /\ current_access_token_expires_at' = current_access_token_expires_at]_vars

====
